---------------------------- MODULE Spec2Model ----------------------------
(***************************************************************************)
(* A model of the lanl/highs Go package: the layer that turns a caller's   *)
(* description of an LP/MIP/QP problem into the arrays handed to the HiGHS *)
(* backend and maps the backend's answer to a typed solution.              *)
(*                                                                         *)
(* Numbers.  Go float64 values are modelled by integers; every value the   *)
(* model uses is a small dyadic rational, on which float64 arithmetic is   *)
(* exact.  Primal values returned by the backend are counted in quarters   *)
(* (2 stands for 0.5, 9 for 2.25) and objective values in thirty-seconds   *)
(* (184 stands for 5.75), the unit the quadratic terms of a QP need.       *)
(***************************************************************************)
EXTENDS Integers, Sequences, FiniteSets, TLC

\* ------------------------------------------------------------------------
\* Bounds of the model
\* ------------------------------------------------------------------------

\* Longest list of Nonzero entries handed to filterNonzeros / nonzerosToCSR.
MaxLen == 3

\* Largest row or column index of an entry.
MaxIdx == 1

\* Longest cost, bound or variable-type vector of a model.
MaxVec == 2

\* Most entries in the constraint matrix of a model, and in the Hessian of
\* a QPModel where the Hessian is only validated.
MaxCoeff == 1

\* Most entries in the Hessian of a QPModel, and in a matrix given out of
\* order.
MaxHess == 2

\* Most calls of AddDenseRow, and assignments, made on one model.
MaxRows == 3

\* Coefficient values of entries.
Vals == {1, 2}

\* Row and column indices of entries; -1 stands for any negative index.
Indices == -1 .. MaxIdx

\* type Nonzero struct { Row int; Col int; Val float64 }
\* An entry with a negative index is rejected whatever its value, so such
\* entries carry one value only.
Nonzero ==
    {e \in [Row : Indices, Col : Indices, Val : Vals] :
        (e.Row < 0 \/ e.Col < 0) => e.Val = 1}

\* All sequences over S of length at most n.
SeqsUpTo(S, n) == UNION {[1 .. k -> S] : k \in 0 .. n}

VARIABLES
    nz,     \* the entry list handed to the canonicalizer
    tri,    \* the requireUpperTriangular flag
    out,    \* what the last canonicalizer or encoder call returned
    model,  \* the caller's high-level model (Model and the structs embedding it)
    kind,   \* the Go type the model is held in
    call,   \* the last method call on the model and what it returned
    highs,  \* the HiGHS library: its sessions, the state of the session in use
    history, \* the calls and assignments the caller has made on the model
    heap    \* what the caller still refers to, and what the collector has done

vars == <<nz, tri, out, model, kind, call, highs, history, heap>>

canonVars == <<nz, tri, out>>

modelVars == <<model, kind, call, highs, history, heap>>

\* ------------------------------------------------------------------------
\* filterNonzeros and nonzerosToCSR
\* ------------------------------------------------------------------------

\* The less function handed to sort.SliceStable: row-major order on keys.
Less(nz0, nz1) ==
    CASE nz0.Row < nz1.Row -> TRUE
      [] nz0.Row > nz1.Row -> FALSE
      [] nz0.Col < nz1.Col -> TRUE
      [] nz0.Col > nz1.Col -> FALSE
      [] OTHER -> FALSE

\* One pass of the insertion sort sort.SliceStable runs on slices shorter
\* than 20 elements: v moves left past every element it is less than.
RECURSIVE InsertSorted(_, _)
InsertSorted(s, v) ==
    IF s = <<>> THEN <<v>>
    ELSE IF Less(v, s[Len(s)])
         THEN Append(InsertSorted(SubSeq(s, 1, Len(s) - 1), v), s[Len(s)])
         ELSE Append(s, v)

\* A sort that leaves the keys unsorted and reverses the list.
SliceStableReversed(s) == [k \in 1 .. Len(s) |-> s[Len(s) + 1 - k]]

RECURSIVE SliceStable(_)
SliceStable(s) ==
    IF s = <<>> THEN <<>>
    ELSE InsertSorted(SliceStable(SubSeq(s, 1, Len(s) - 1)), s[Len(s)])

\* A canonicalizer that keeps every entry of a run of equal keys.
ElideStepKeepAll(noDups, v) == Append(noDups, v)

\* A canonicalizer that keeps the first value of a run of equal keys.
ElideStepKeepFirst(noDups, v) ==
    LET i == Len(noDups) IN
    IF i > 0 /\ v.Row = noDups[i].Row /\ v.Col = noDups[i].Col
    THEN noDups ELSE Append(noDups, v)

\* One iteration of the loop that elides duplicate entries.
ElideStep(noDups, v) ==
    LET i == Len(noDups) IN
    CASE i = 0 -> Append(noDups, v)
      [] i > 0 /\ v.Row = noDups[i].Row /\ v.Col = noDups[i].Col ->
            [noDups EXCEPT ![i].Val = v.Val]
      [] OTHER -> Append(noDups, v)

RECURSIVE ElideDuplicates(_)
ElideDuplicates(sorted) ==
    IF sorted = <<>> THEN <<>>
    ELSE ElideStep(ElideDuplicates(SubSeq(sorted, 1, Len(sorted) - 1)),
                   sorted[Len(sorted)])

\* The loop that complains about negative indices.
HasNegativeIndex(list) ==
    \E k \in 1 .. Len(list) : list[k].Row < 0 \/ list[k].Col < 0

\* A triangularity check that looks at the first entry only.
HasLowerTriangularFirstOnly(list) ==
    list # <<>> /\ list[1].Row > list[1].Col

\* The loop that complains about lower-triangular indices.
HasLowerTriangular(list) ==
    \E k \in 1 .. Len(list) : list[k].Row > list[k].Col

\* A canonicalizer that checks triangularity before the sign of the indices.
filterNonzerosTriFirst(list, upper) ==
    IF upper /\ HasLowerTriangular(list)
    THEN [err |-> "NotUpperTriangular", nonzeros |-> <<>>]
    ELSE IF HasNegativeIndex(list)
    THEN [err |-> "InvalidIndex", nonzeros |-> <<>>]
    ELSE [err |-> "nil", nonzeros |-> ElideDuplicates(SliceStable(list))]

\* func filterNonzeros(nz []Nonzero, tri bool) ([]Nonzero, error)
filterNonzeros(list, upper) ==
    IF HasNegativeIndex(list)
    THEN [err |-> "InvalidIndex", nonzeros |-> <<>>]
    ELSE IF upper /\ HasLowerTriangular(list)
    THEN [err |-> "NotUpperTriangular", nonzeros |-> <<>>]
    ELSE [err |-> "nil", nonzeros |-> ElideDuplicates(SliceStable(list))]

\* An encoder that opens a row at every entry whose row is not smaller than
\* the previous one.
RECURSIVE CSRLoopGreaterEqual(_)
CSRLoopGreaterEqual(nonzeros) ==
    IF nonzeros = <<>>
    THEN [prevRow |-> -1, start |-> <<>>, index |-> <<>>, value |-> <<>>]
    ELSE LET acc == CSRLoopGreaterEqual(SubSeq(nonzeros, 1, Len(nonzeros) - 1))
             e   == nonzeros[Len(nonzeros)]
             new == e.Row >= acc.prevRow
         IN [prevRow |-> IF new THEN e.Row ELSE acc.prevRow,
             start   |-> IF new THEN Append(acc.start, Len(acc.value))
                                ELSE acc.start,
             index   |-> Append(acc.index, e.Col),
             value   |-> Append(acc.value, e.Val)]

\* The loop of nonzerosToCSR over the canonical entries; start holds
\* zero-based offsets into value.
\* An encoder whose row offsets count from one.
RECURSIVE CSRLoopOffByOne(_)
CSRLoopOffByOne(nonzeros) ==
    IF nonzeros = <<>>
    THEN [prevRow |-> -1, start |-> <<>>, index |-> <<>>, value |-> <<>>]
    ELSE LET acc == CSRLoopOffByOne(SubSeq(nonzeros, 1, Len(nonzeros) - 1))
             e == nonzeros[Len(nonzeros)]
             new == e.Row > acc.prevRow
         IN [prevRow |-> IF new THEN e.Row ELSE acc.prevRow,
             start |-> IF new THEN Append(acc.start, Len(acc.value) + 1)
                       ELSE acc.start,
             index |-> Append(acc.index, e.Col),
             value |-> Append(acc.value, e.Val)]

\* An encoder that gives every row up to the last one an element of start,
\* the rows without entries included.
RECURSIVE CSRLoopPadded(_)
CSRLoopPadded(nonzeros) ==
    IF nonzeros = <<>>
    THEN [prevRow |-> -1, start |-> <<>>, index |-> <<>>, value |-> <<>>]
    ELSE LET acc == CSRLoopPadded(SubSeq(nonzeros, 1, Len(nonzeros) - 1))
             e   == nonzeros[Len(nonzeros)]
             new == e.Row > acc.prevRow
         IN [prevRow |-> IF new THEN e.Row ELSE acc.prevRow,
             start   |-> IF new
                         THEN acc.start \o
                              [i \in 1 .. e.Row - acc.prevRow |-> Len(acc.value)]
                         ELSE acc.start,
             index   |-> Append(acc.index, e.Col),
             value   |-> Append(acc.value, e.Val)]

RECURSIVE CSRLoop(_)
CSRLoop(nonzeros) ==
    IF nonzeros = <<>>
    THEN [prevRow |-> -1, start |-> <<>>, index |-> <<>>, value |-> <<>>]
    ELSE LET acc == CSRLoop(SubSeq(nonzeros, 1, Len(nonzeros) - 1))
             e   == nonzeros[Len(nonzeros)]
             new == e.Row > acc.prevRow
         IN [prevRow |-> IF new THEN e.Row ELSE acc.prevRow,
             start   |-> IF new THEN Append(acc.start, Len(acc.value))
                                ELSE acc.start,
             index   |-> Append(acc.index, e.Col),
             value   |-> Append(acc.value, e.Val)]

\* func nonzerosToCSR(nz []Nonzero, tri bool) (start, index, value, err)
nonzerosToCSR(list, upper) ==
    LET f == filterNonzeros(list, upper) IN
    IF f.err # "nil"
    THEN [err |-> f.err, start |-> <<>>, index |-> <<>>, value |-> <<>>]
    ELSE LET c == CSRLoop(f.nonzeros)
         IN [err |-> "nil", start |-> c.start, index |-> c.index,
             value |-> c.value]

\* ------------------------------------------------------------------------
\* The high-level model and replaceNilSlices
\* ------------------------------------------------------------------------

\* math.Inf(-1) and math.Inf(1); no bound of the model comes near them.
MInf == -1000000

PInf == 1000000

\* A Go slice field: nil, or a slice with its elements (possibly none).
NilSlice == [isNil |-> TRUE, elems |-> <<>>]

Slice(s) == [isNil |-> FALSE, elems |-> s]

\* nil, and every slice over S of length at most n.
Slices(S, n) == {NilSlice} \cup {Slice(s) : s \in SeqsUpTo(S, n)}

\* make([]float64, n) with every element set to v.
Filled(n, v) == [i \in 1 .. n |-> v]

\* type Model struct, with the fields MIPModel and QPModel add to it.  The
\* two matrices are slices too; nil and empty are not told apart for them.
ZeroModel ==
    [Maximize |-> FALSE, ColCosts |-> NilSlice, Offset |-> 0,
     ColLower |-> NilSlice, ColUpper |-> NilSlice,
     RowLower |-> NilSlice, RowUpper |-> NilSlice,
     CoeffMatrix |-> <<>>, VarTypes |-> NilSlice, HessianMatrix |-> <<>>]

Max2(a, b) == IF a > b THEN a ELSE b

\* An inference that takes an entry's index for the count it implies.
RECURSIVE MatrixDimsNoPlusOne(_)
MatrixDimsNoPlusOne(matrix) ==
    IF matrix = <<>> THEN [nr |-> 0, nc |-> 0]
    ELSE LET d == MatrixDimsNoPlusOne(SubSeq(matrix, 1, Len(matrix) - 1))
             e == matrix[Len(matrix)]
         IN [nr |-> IF e.Row >= d.nr THEN e.Row ELSE d.nr,
             nc |-> IF e.Col >= d.nc THEN e.Col ELSE d.nc]

\* The loop over m.CoeffMatrix that opens replaceNilSlices.
RECURSIVE MatrixDims(_)
MatrixDims(matrix) ==
    IF matrix = <<>> THEN [nr |-> 0, nc |-> 0]
    ELSE LET d == MatrixDims(SubSeq(matrix, 1, Len(matrix) - 1))
             e == matrix[Len(matrix)]
         IN [nr |-> IF e.Row >= d.nr THEN e.Row + 1 ELSE d.nr,
             nc |-> IF e.Col >= d.nc THEN e.Col + 1 ELSE d.nc]

\* The first part of replaceNilSlices: the inferred row and column counts.
InferDims(m) ==
    LET d == MatrixDims(m.CoeffMatrix) IN
    [nc |-> Max2(Max2(Max2(d.nc, Len(m.ColCosts.elems)),
                      Len(m.ColLower.elems)), Len(m.ColUpper.elems)),
     nr |-> Max2(Max2(d.nr, Len(m.RowLower.elems)), Len(m.RowUpper.elems))]

\* A defaulting that gives absent lower bounds 0 in place of minus infinity.
DefaultedZeroLower(m, nr, nc) ==
    [m EXCEPT
        !.ColCosts = IF @.isNil THEN Slice(Filled(nc, 0)) ELSE @,
        !.ColLower = IF @.isNil THEN Slice(Filled(nc, 0)) ELSE @,
        !.ColUpper = IF @.isNil THEN Slice(Filled(nc, PInf)) ELSE @,
        !.RowLower = IF @.isNil THEN Slice(Filled(nr, 0)) ELSE @,
        !.RowUpper = IF @.isNil THEN Slice(Filled(nr, PInf)) ELSE @]

\* The second part: the copy of the model with its nil slices replaced.
Defaulted(m, nr, nc) ==
    [m EXCEPT
        !.ColCosts = IF @.isNil THEN Slice(Filled(nc, 0)) ELSE @,
        !.ColLower = IF @.isNil THEN Slice(Filled(nc, MInf)) ELSE @,
        !.ColUpper = IF @.isNil THEN Slice(Filled(nc, PInf)) ELSE @,
        !.RowLower = IF @.isNil THEN Slice(Filled(nr, MInf)) ELSE @,
        !.RowUpper = IF @.isNil THEN Slice(Filled(nr, PInf)) ELSE @]

\* The third part: the switch that complains about slices of the wrong
\* size.  Its first case repeats the test of ColLower; the length of
\* ColCosts is not looked at.
WrongSize(mc, nr, nc) ==
    \/ Len(mc.ColLower.elems) # nc
    \/ Len(mc.ColLower.elems) # nc \/ Len(mc.ColUpper.elems) # nc
    \/ Len(mc.RowLower.elems) # nr \/ Len(mc.RowUpper.elems) # nr

\* func (m *Model) replaceNilSlices() (int, int, *Model, bool)
replaceNilSlices(m) ==
    LET d  == InferDims(m)
        mc == Defaulted(m, d.nr, d.nc)
    IN IF WrongSize(mc, d.nr, d.nc)
       THEN [nr |-> 0, nc |-> 0, cm |-> ZeroModel, ok |-> FALSE]
       ELSE [nr |-> d.nr, nc |-> d.nc, cm |-> mc, ok |-> TRUE]

\* The entries AddDenseRow appends for row r: one for each coefficient that
\* is not zero, in column order, the columns counted from 0.
RECURSIVE DenseEntries(_, _)
DenseEntries(r, coeffs) ==
    IF coeffs = <<>> THEN <<>>
    ELSE LET c    == Len(coeffs)
             rest == DenseEntries(r, SubSeq(coeffs, 1, c - 1))
         IN IF coeffs[c] = 0 THEN rest
            ELSE Append(rest, [Row |-> r, Col |-> c - 1, Val |-> coeffs[c]])

\* func (m *Model) AddDenseRow(lb float64, coeffs []float64, ub float64)
addDenseRow(m, lb, coeffs, ub) ==
    LET r == Len(m.RowLower.elems)
    IN [m EXCEPT !.RowLower = Slice(Append(@.elems, lb)),
                 !.RowUpper = Slice(Append(@.elems, ub)),
                 !.CoeffMatrix = @ \o DenseEntries(r, coeffs)]

NoCall == [op |-> "none"]

\* ------------------------------------------------------------------------
\* What a call leaves in the caller's model
\* ------------------------------------------------------------------------

\* A replaceNilSlices that stores the default slices in the receiver.
AfterReplaceNilSlicesInPlace(m, mc) == mc

\* replaceNilSlices works on mc := *m, a copy of the struct: the default
\* slices are assigned to fields of the copy, and the receiver keeps its own.
AfterReplaceNilSlices(m, mc) == m

\* filterNonzeros sorts and elides in sorted, a new slice the entries were
\* copied into: the caller's list keeps its order and its duplicates.
AfterFilterNonzeros(list, sorted) == list

\* The caller's list after filterNonzeros(list, upper).  The two error
\* returns come before the copy is made.
ListAfter(list, upper) ==
    IF filterNonzeros(list, upper).err # "nil"
    THEN list
    ELSE AfterFilterNonzeros(list, SliceStable(list))

\* The caller's model after Solve or ToRawModel on a model of kind k.
\* Every one of them calls replaceNilSlices, then, unless the dimensions
\* were inconsistent, converts m.CoeffMatrix; QPModel.Solve then filters
\* m.HessianMatrix unless the conversion failed.  Nothing after that point
\* writes to the model or to its copy.
ModelAfter(m, k) ==
    LET d  == InferDims(m)
        ok == replaceNilSlices(m).ok
        m1 == AfterReplaceNilSlices(m, Defaulted(m, d.nr, d.nc))
        m2 == IF ok
              THEN [m1 EXCEPT !.CoeffMatrix = ListAfter(m.CoeffMatrix, FALSE)]
              ELSE m1
    IN IF k = "QPModel" /\ ok /\ filterNonzeros(m.CoeffMatrix, FALSE).err = "nil"
       THEN [m2 EXCEPT !.HessianMatrix = ListAfter(m.HessianMatrix, TRUE)]
       ELSE m2

\* ------------------------------------------------------------------------
\* The HiGHS library as the package sees it
\* ------------------------------------------------------------------------

\* The kHighsStatus values a call into HiGHS returns.
HighsStatus == {"kHighsStatusOk", "kHighsStatusWarning", "kHighsStatusError"}

\* The library before any call: no session, and the option and the model
\* size a session starts with.
NoSession ==
    [sessions |-> 0, outputFlag |-> TRUE, numCol |-> 0, numRow |-> 0]

\* The Go heap before a RawModel is made: no RawModel, no RawSolution that
\* holds the pointer to a session, and no call of Highs_destroy so far.
NoHeap == [rm |-> "none", soln |-> "none", destroyed |-> 0]

\* The heap while the caller holds the RawModel NewRawModel returned.
HeldModel == [NoHeap EXCEPT !.rm = "reachable"]

\* func newCallStatus(st, hName, gName): nil for kHighsStatusOk, otherwise
\* a CallStatus holding the status and the two names.
NilError == [kind |-> "nil", Status |-> "kHighsStatusOk", CName |-> "", GoName |-> ""]

newCallStatus(st, hName, gName) ==
    IF st = "kHighsStatusOk" THEN NilError
    ELSE [kind |-> "CallStatus", Status |-> st, CName |-> hName, GoName |-> gName]

\* An error made with fmt.Errorf, told apart by what it complains about.
Errorf(what) == [kind |-> what, Status |-> "kHighsStatusOk", CName |-> "", GoName |-> ""]

\* func (e CallStatus) IsWarning() bool
IsWarning(e) == e.Status = "kHighsStatusWarning"

\* A conversion without the case of the iteration limit.
convertHighsModelStatusNoLimit(hms) ==
    CASE hms = "kHighsModelStatusNotset" -> "NotSet"
      [] hms = "kHighsModelStatusLoadError" -> "LoadError"
      [] hms = "kHighsModelStatusModelError" -> "ModelError"
      [] hms = "kHighsModelStatusPresolveError" -> "PresolveError"
      [] hms = "kHighsModelStatusSolveError" -> "SolveError"
      [] hms = "kHighsModelStatusPostsolveError" -> "PostsolveError"
      [] hms = "kHighsModelStatusModelEmpty" -> "ModelEmpty"
      [] hms = "kHighsModelStatusOptimal" -> "Optimal"
      [] hms = "kHighsModelStatusInfeasible" -> "Infeasible"
      [] hms = "kHighsModelStatusUnboundedOrInfeasible" -> "UnboundedOrInfeasible"
      [] hms = "kHighsModelStatusUnbounded" -> "Unbounded"
      [] hms = "kHighsModelStatusObjectiveBound" -> "ObjectiveBound"
      [] hms = "kHighsModelStatusObjectiveTarget" -> "ObjectiveTarget"
      [] hms = "kHighsModelStatusTimeLimit" -> "TimeLimit"
      [] OTHER -> "UnknownModelStatus"

\* func convertHighsModelStatus(hms C.HighsInt) ModelStatus
convertHighsModelStatus(hms) ==
    CASE hms = "kHighsModelStatusNotset" -> "NotSet"
      [] hms = "kHighsModelStatusLoadError" -> "LoadError"
      [] hms = "kHighsModelStatusModelError" -> "ModelError"
      [] hms = "kHighsModelStatusPresolveError" -> "PresolveError"
      [] hms = "kHighsModelStatusSolveError" -> "SolveError"
      [] hms = "kHighsModelStatusPostsolveError" -> "PostsolveError"
      [] hms = "kHighsModelStatusModelEmpty" -> "ModelEmpty"
      [] hms = "kHighsModelStatusOptimal" -> "Optimal"
      [] hms = "kHighsModelStatusInfeasible" -> "Infeasible"
      [] hms = "kHighsModelStatusUnboundedOrInfeasible" -> "UnboundedOrInfeasible"
      [] hms = "kHighsModelStatusUnbounded" -> "Unbounded"
      [] hms = "kHighsModelStatusObjectiveBound" -> "ObjectiveBound"
      [] hms = "kHighsModelStatusObjectiveTarget" -> "ObjectiveTarget"
      [] hms = "kHighsModelStatusTimeLimit" -> "TimeLimit"
      [] hms = "kHighsModelStatusIterationLimit" -> "IterationLimit"
      [] OTHER -> "UnknownModelStatus"

\* func convertHighsBasisStatus(hbs C.HighsInt) BasisStatus
convertHighsBasisStatus(hbs) ==
    CASE hbs = "kHighsBasisStatusLower" -> "Lower"
      [] hbs = "kHighsBasisStatusBasic" -> "Basic"
      [] hbs = "kHighsBasisStatusUpper" -> "Upper"
      [] hbs = "kHighsBasisStatusZero" -> "Zero"
      [] hbs = "kHighsBasisStatusNonbasic" -> "NonBasic"
      [] OTHER -> "UnknownBasisStatus"

\* The model statuses the library is let to report here.
ModelStatusCodes == {"kHighsModelStatusOptimal", "kHighsModelStatusInfeasible"}

\* The primal values the library is let to write, in quarters: 0.5 and 2.25.
PrimalValues == {2, 9}

\* What one whole-model call (Highs_lpCall, Highs_mipCall, Highs_qpCall)
\* may answer for a model of nr rows and nc columns.  Row values, duals and
\* basis statuses are written too, with one value each.  Solve reads the
\* buffers only after an Ok status, so one answer stands for all the
\* answers that come with another status.
CallAnswers(nr, nc) ==
    {b \in [status : HighsStatus, modelStatus : ModelStatusCodes,
            colValue : [1 .. nc -> PrimalValues], rowValue : {Filled(nr, 4)},
            colDual : {Filled(nc, 0)}, rowDual : {Filled(nr, 0)},
            colBasisStatus : {Filled(nc, "kHighsBasisStatusBasic")},
            rowBasisStatus : {Filled(nr, "kHighsBasisStatusLower")}] :
        b.status # "kHighsStatusOk" =>
            /\ b.modelStatus = "kHighsModelStatusOptimal"
            /\ b.colValue = Filled(nc, 2)}

\* The statuses of a run of calls: a method returns at the first call that
\* is not Ok, so the statuses after it are never produced.
StatusRuns(names) ==
    {st \in [names -> HighsStatus] :
        Cardinality({n \in names : st[n] # "kHighsStatusOk"}) <= 1}

\* ------------------------------------------------------------------------
\* Solve on LPModel, MIPModel and QPModel
\* ------------------------------------------------------------------------

\* The zero value of LPSolution, MIPSolution and QPSolution (a MIPSolution
\* has no dual and basis fields; they stay empty here).
ZeroSolution ==
    [Status |-> "UnknownModelStatus", ColumnPrimal |-> <<>>, RowPrimal |-> <<>>,
     ColumnDual |-> <<>>, RowDual |-> <<>>,
     ColumnBasis |-> <<>>, RowBasis |-> <<>>, Objective |-> 0]

\* Objective values are counted in thirty-seconds: a float64 holding the
\* integer x, and one holding p quarters.
Float(x) == 32 * x

Quarters(p) == 8 * p

\* What a method returned (or that it panicked), with the HiGHS calls it made.
Returned(op, soln, err, calls) ==
    [op |-> op, outcome |-> IF err.kind = "nil" THEN "ok" ELSE "error",
     soln |-> soln, err |-> err, calls |-> calls]

Panicked(op, calls) ==
    [op |-> op, outcome |-> "panic", soln |-> ZeroSolution, err |-> NilError,
     calls |-> calls]

\* &xs[0] panics on an empty slice: the argument list of a whole-model call
\* cannot be built when a cost, bound, matrix or result buffer is empty.
NoFirstElement(cm, nr, nc, csr) ==
    \/ cm.ColCosts.elems = <<>>
    \/ cm.ColLower.elems = <<>> \/ cm.ColUpper.elems = <<>>
    \/ cm.RowLower.elems = <<>> \/ cm.RowUpper.elems = <<>>
    \/ csr.start = <<>> \/ csr.index = <<>> \/ csr.value = <<>>
    \/ nc = 0 \/ nr = 0

\* The loop that adds the linear terms to the offset; it indexes
\* cm.ColCosts with every index of the primal vector.
RECURSIVE LinearTerms(_, _, _)
LinearTerms(costs, primal, n) ==
    IF n = 0 THEN 0
    ELSE LinearTerms(costs, primal, n - 1) + Quarters(primal[n] * costs[n])

\* An objective that leaves the offset out.
LinearObjectiveNoOffset(cm, primal) ==
    LinearTerms(cm.ColCosts.elems, primal, Len(primal))

LinearObjective(cm, primal) ==
    Float(cm.Offset) + LinearTerms(cm.ColCosts.elems, primal, Len(primal))

\* The conversion of a whole-model call's answer to a solution, objective
\* apart.
Converted(b) ==
    [Status |-> convertHighsModelStatus(b.modelStatus),
     ColumnPrimal |-> b.colValue, RowPrimal |-> b.rowValue,
     ColumnDual |-> b.colDual, RowDual |-> b.rowDual,
     ColumnBasis |-> [i \in DOMAIN b.colBasisStatus |->
                        convertHighsBasisStatus(b.colBasisStatus[i])],
     RowBasis |-> [i \in DOMAIN b.rowBasisStatus |->
                        convertHighsBasisStatus(b.rowBasisStatus[i])],
     Objective |-> 0]

\* A result with the arguments the method handed to HiGHS.
WithArgs(r, args) ==
    [f \in DOMAIN r \cup {"args"} |-> IF f = "args" THEN args ELSE r[f]]

\* LPModel.Solve from the conversion of the parameters on, given the
\* defaulted copy and the encoded matrix.
lpCall(cm, nr, nc, csr, b) ==
    LET r ==
            IF NoFirstElement(cm, nr, nc, csr) THEN Panicked("LPModel.Solve", <<>>)
            ELSE LET err == newCallStatus(b.status, "Highs_lpCall", "Solve") IN
                 IF err.kind # "nil"
                 THEN Returned("LPModel.Solve", ZeroSolution, err, <<"Highs_lpCall">>)
                 ELSE IF Len(cm.ColCosts.elems) < Len(b.colValue)
                 THEN Panicked("LPModel.Solve", <<"Highs_lpCall">>)
                 ELSE Returned("LPModel.Solve",
                               [Converted(b) EXCEPT
                                   !.Objective = LinearObjective(cm, b.colValue)],
                               NilError, <<"Highs_lpCall">>)
    IN IF r.calls = <<>> THEN r
       ELSE WithArgs(r, [numCol |-> nc, numRow |-> nr, aStart |-> csr.start])

\* A Solve that encodes the matrix only after the library has been called.
lpSolveEncodeLate(m, b) ==
    LET d   == replaceNilSlices(m)
        csr == nonzerosToCSR(m.CoeffMatrix, FALSE)
    IN IF ~d.ok
       THEN Returned("LPModel.Solve", ZeroSolution,
                     Errorf("InconsistentDimensions"), <<>>)
       ELSE IF csr.err # "nil"
       THEN Returned("LPModel.Solve", ZeroSolution, Errorf(csr.err),
                     <<"Highs_lpCall">>)
       ELSE lpCall(d.cm, d.nr, d.nc, csr, b)

\* func (m *LPModel) Solve() (LPSolution, error), with b the answer of
\* Highs_lpCall should the call be made.
lpSolve(m, b) ==
    LET d   == replaceNilSlices(m)
        csr == nonzerosToCSR(m.CoeffMatrix, FALSE)
    IN IF ~d.ok
       THEN Returned("LPModel.Solve", ZeroSolution,
                     Errorf("InconsistentDimensions"), <<>>)
       ELSE IF csr.err # "nil"
       THEN Returned("LPModel.Solve", ZeroSolution, Errorf(csr.err), <<>>)
       ELSE lpCall(d.cm, d.nr, d.nc, csr, b)

\* type VariableType and the kHighsVarType each one stands for.
VariableTypes ==
    {"ContinuousType", "IntegerType", "SemiContinuousType", "SemiIntegerType",
     "ImplicitIntegerType"}

\* var variableTypeToHighs = []C.HighsInt{...}, indexed by a VariableType.
variableTypeToHighs(vt) ==
    CASE vt = "ContinuousType"      -> "kHighsVarTypeContinuous"
      [] vt = "IntegerType"         -> "kHighsVarTypeInteger"
      [] vt = "SemiContinuousType"  -> "kHighsVarTypeSemiContinuous"
      [] vt = "SemiIntegerType"     -> "kHighsVarTypeSemiInteger"
      [] vt = "ImplicitIntegerType" -> "kHighsVarTypeImplicitInteger"

\* An integrality vector whose unwritten elements are integer.
IntegralityDefaultInteger(vts, nc) ==
    [i \in 1 .. nc |-> IF i <= Len(vts) THEN variableTypeToHighs(vts[i])
                       ELSE "kHighsVarTypeInteger"]

\* integrality := make([]C.HighsInt, nc), written at every index of
\* m.VarTypes; the zero value of an element is kHighsVarTypeContinuous.
Integrality(vts, nc) ==
    [i \in 1 .. nc |-> IF i <= Len(vts) THEN variableTypeToHighs(vts[i])
                       ELSE "kHighsVarTypeContinuous"]

\* func (m *MIPModel) Solve() (MIPSolution, error).  The integrality slice
\* has nc elements and is written at every index of m.VarTypes.
mipSolve(m, b) ==
    LET d   == replaceNilSlices(m)
        csr == nonzerosToCSR(m.CoeffMatrix, FALSE)
        err == newCallStatus(b.status, "Highs_mipCall", "Solve")
        r   ==
               IF ~d.ok
               THEN Returned("MIPModel.Solve", ZeroSolution,
                             Errorf("InconsistentDimensions"), <<>>)
               ELSE IF csr.err # "nil"
               THEN Returned("MIPModel.Solve", ZeroSolution, Errorf(csr.err), <<>>)
               ELSE IF Len(m.VarTypes.elems) > d.nc
               THEN Panicked("MIPModel.Solve", <<>>)
               ELSE IF NoFirstElement(d.cm, d.nr, d.nc, csr)
               THEN Panicked("MIPModel.Solve", <<>>)
               ELSE IF err.kind # "nil"
               THEN Returned("MIPModel.Solve", ZeroSolution, err, <<"Highs_mipCall">>)
               ELSE IF Len(d.cm.ColCosts.elems) < Len(b.colValue)
               THEN Panicked("MIPModel.Solve", <<"Highs_mipCall">>)
               ELSE Returned("MIPModel.Solve",
                             [ZeroSolution EXCEPT
                                 !.Status = convertHighsModelStatus(b.modelStatus),
                                 !.ColumnPrimal = b.colValue,
                                 !.RowPrimal = b.rowValue,
                                 !.Objective = LinearObjective(d.cm, b.colValue)],
                             NilError, <<"Highs_mipCall">>)
    IN IF r.calls = <<>> THEN r
       ELSE WithArgs(r, [numCol |-> d.nc, numRow |-> d.nr,
                         aStart |-> csr.start,
                         integrality |-> Integrality(m.VarTypes.elems, d.nc)])

\* Quadratic terms that are not doubled off the diagonal.
RECURSIVE QuadraticTermsNoDoubling(_, _)
QuadraticTermsNoDoubling(hessian, primal) ==
    IF hessian = <<>> THEN 0
    ELSE LET e == hessian[Len(hessian)]
         IN QuadraticTermsNoDoubling(SubSeq(hessian, 1, Len(hessian) - 1), primal)
            + primal[e.Row + 1] * primal[e.Col + 1] * e.Val

\* The loop over the canonical Hessian that adds the quadratic terms:
\* p[r] * p[c] * h / 2, doubled off the diagonal (in thirty-seconds, the
\* product of two quarter counts is the half term).
RECURSIVE QuadraticTerms(_, _)
QuadraticTerms(hessian, primal) ==
    IF hessian = <<>> THEN 0
    ELSE LET e == hessian[Len(hessian)]
             v == primal[e.Row + 1] * primal[e.Col + 1] * e.Val
         IN QuadraticTerms(SubSeq(hessian, 1, Len(hessian) - 1), primal)
            + (IF e.Row # e.Col THEN 2 * v ELSE v)

\* func (m *QPModel) Solve() (QPSolution, error)
qpSolve(m, b) ==
    LET d   == replaceNilSlices(m)
        csr == nonzerosToCSR(m.CoeffMatrix, FALSE)
        hessian == filterNonzeros(m.HessianMatrix, TRUE)
        q   == nonzerosToCSR(hessian.nonzeros, TRUE)
        err == newCallStatus(b.status, "Highs_qpCall", "Solve")
    IN IF ~d.ok
       THEN Returned("QPModel.Solve", ZeroSolution,
                     Errorf("InconsistentDimensions"), <<>>)
       ELSE IF csr.err # "nil"
       THEN Returned("QPModel.Solve", ZeroSolution, Errorf(csr.err), <<>>)
       ELSE IF hessian.err # "nil"
       THEN Returned("QPModel.Solve", ZeroSolution, Errorf(hessian.err), <<>>)
       ELSE IF q.err # "nil"
       THEN Returned("QPModel.Solve", ZeroSolution, Errorf(q.err), <<>>)
       ELSE IF \/ NoFirstElement(d.cm, d.nr, d.nc, csr)
               \/ q.start = <<>> \/ q.index = <<>> \/ q.value = <<>>
       THEN Panicked("QPModel.Solve", <<>>)
       ELSE IF err.kind # "nil"
       THEN Returned("QPModel.Solve", ZeroSolution, err, <<"Highs_qpCall">>)
       ELSE IF \/ Len(d.cm.ColCosts.elems) < Len(b.colValue)
               \/ \E k \in 1 .. Len(hessian.nonzeros) :
                    \/ hessian.nonzeros[k].Row >= Len(b.colValue)
                    \/ hessian.nonzeros[k].Col >= Len(b.colValue)
       THEN Panicked("QPModel.Solve", <<"Highs_qpCall">>)
       ELSE Returned("QPModel.Solve",
                     [Converted(b) EXCEPT
                         !.Objective = LinearObjective(d.cm, b.colValue)
                             + QuadraticTerms(hessian.nonzeros, b.colValue)],
                     NilError, <<"Highs_qpCall">>)

\* ------------------------------------------------------------------------
\* LPModel.ToRawModel and RawModel.AddColumnBounds
\* ------------------------------------------------------------------------

\* What a method on or producing a RawModel returned, the calls it made and
\* the state it left the library in.  rm tells whether the *RawModel
\* returned holds a session.
RawReturned(op, rm, err, calls, lib) ==
    [call |-> [op |-> op, outcome |-> IF err.kind = "nil" THEN "ok" ELSE "error",
               rm |-> rm, err |-> err, calls |-> calls],
     lib |-> lib]

RawPanicked(op, calls, lib) ==
    [call |-> [op |-> op, outcome |-> "panic", rm |-> "none", err |-> NilError,
               calls |-> calls],
     lib |-> lib]

\* An option or model write takes effect unless HiGHS reports an error.
Accepted(st) == st # "kHighsStatusError"

\* func (m *LPModel) ToRawModel() (*RawModel, error), with st the statuses
\* of the four calls made on the new session.
toRawModel(m, lib, st) ==
    LET d    == replaceNilSlices(m)
        csr  == nonzerosToCSR(m.CoeffMatrix, FALSE)
        op   == "LPModel.ToRawModel"
        \* rm := NewRawModel()
        lib1 == [lib EXCEPT !.sessions = @ + 1, !.outputFlag = TRUE,
                            !.numCol = 0, !.numRow = 0]
        c1   == <<"Highs_create">>
        \* outFlag, err := rm.GetBoolOption("output_flag")
        err2 == newCallStatus(st.get, "Highs_getBoolOptionValue", "GetBoolOption")
        outFlag == lib1.outputFlag
        c2   == Append(c1, "Highs_getBoolOptionValue")
        \* err = rm.SetBoolOption("output_flag", false)
        err3 == newCallStatus(st.clear, "Highs_setBoolOptionValue", "SetBoolOption")
        lib3 == IF Accepted(st.clear) THEN [lib1 EXCEPT !.outputFlag = FALSE]
                ELSE lib1
        c3   == Append(c2, "Highs_setBoolOptionValue")
        \* status := C.Highs_passLp(...)
        err4 == newCallStatus(st.pass, "Highs_passLp", "ToRawModel")
        lib4 == IF Accepted(st.pass)
                THEN [lib3 EXCEPT !.numCol = d.nc, !.numRow = d.nr] ELSE lib3
        c4   == Append(c3, "Highs_passLp")
        \* err = rm.SetBoolOption("output_flag", outFlag)
        err5 == newCallStatus(st.restore, "Highs_setBoolOptionValue", "SetBoolOption")
        lib5 == IF Accepted(st.restore) THEN [lib4 EXCEPT !.outputFlag = outFlag]
                ELSE lib4
        c5   == Append(c4, "Highs_setBoolOptionValue")
    IN IF ~d.ok
       THEN RawReturned(op, "empty", Errorf("InconsistentDimensions"), <<>>, lib)
       ELSE IF csr.err # "nil"
       THEN RawReturned(op, "empty", Errorf(csr.err), <<>>, lib)
       ELSE IF err2.kind # "nil" THEN RawReturned(op, "empty", err2, c2, lib1)
       ELSE IF err3.kind # "nil" THEN RawReturned(op, "empty", err3, c3, lib3)
       ELSE IF NoFirstElement(d.cm, d.nr, d.nc, csr) THEN RawPanicked(op, c3, lib3)
       ELSE IF err4.kind # "nil" THEN RawReturned(op, "empty", err4, c4, lib4)
       ELSE IF err5.kind # "nil" THEN RawReturned(op, "empty", err5, c5, lib5)
       ELSE RawReturned(op, "session", NilError, c5, lib5)

\* A prepareBounds that fills an absent side with the other side's infinity.
prepareBoundsSwapped(lb, ub) ==
    CASE lb.isNil /\ ub.isNil ->
            [lb |-> lb, ub |-> ub, err |-> NilError]
      [] lb.isNil ->
            [lb |-> Slice(Filled(Len(ub.elems), PInf)), ub |-> ub, err |-> NilError]
      [] ub.isNil ->
            [lb |-> lb, ub |-> Slice(Filled(Len(lb.elems), MInf)), err |-> NilError]
      [] Len(lb.elems) # Len(ub.elems) ->
            [lb |-> NilSlice, ub |-> NilSlice, err |-> Errorf("LengthMismatch")]
      [] OTHER ->
            [lb |-> lb, ub |-> ub, err |-> NilError]

\* func prepareBounds(lb, ub []float64) ([]float64, []float64, error)
prepareBounds(lb, ub) ==
    CASE lb.isNil /\ ub.isNil ->
            [lb |-> lb, ub |-> ub, err |-> NilError]
      [] lb.isNil ->
            [lb |-> Slice(Filled(Len(ub.elems), MInf)), ub |-> ub, err |-> NilError]
      [] ub.isNil ->
            [lb |-> lb, ub |-> Slice(Filled(Len(lb.elems), PInf)), err |-> NilError]
      [] Len(lb.elems) # Len(ub.elems) ->
            [lb |-> NilSlice, ub |-> NilSlice, err |-> Errorf("LengthMismatch")]
      [] OTHER ->
            [lb |-> lb, ub |-> ub, err |-> NilError]

\* An AddColumnBounds that hands the lower bounds to Highs_addVars before
\* it looks at the error of prepareBounds.
addColumnBoundsAddFirst(lb, ub, lib, st) ==
    LET b  == prepareBounds(lb, ub)
        op == "RawModel.AddColumnBounds"
    IN IF b.err.kind # "nil"
       THEN RawReturned(op, "none", b.err, <<"Highs_addVars">>,
                [lib EXCEPT !.numCol = @ + Len(lb.elems)])
       ELSE IF b.lb.elems = <<>> \/ b.ub.elems = <<>> THEN RawPanicked(op, <<>>, lib)
       ELSE RawReturned(op, "none",
                newCallStatus(st, "Highs_addVars", "SetColumnBounds"),
                <<"Highs_addVars">>,
                IF Accepted(st)
                THEN [lib EXCEPT !.numCol = @ + Len(b.lb.elems)] ELSE lib)

\* func (m *RawModel) AddColumnBounds(lb, ub []float64) error, with st the
\* status of Highs_addVars.
addColumnBounds(lb, ub, lib, st) ==
    LET b  == prepareBounds(lb, ub)
        op == "RawModel.AddColumnBounds"
    IN IF b.err.kind # "nil" THEN RawReturned(op, "none", b.err, <<>>, lib)
       ELSE IF b.lb.elems = <<>> \/ b.ub.elems = <<>> THEN RawPanicked(op, <<>>, lib)
       ELSE RawReturned(op, "none",
                newCallStatus(st, "Highs_addVars", "SetColumnBounds"),
                <<"Highs_addVars">>,
                IF Accepted(st)
                THEN [lib EXCEPT !.numCol = @ + Len(b.lb.elems)] ELSE lib)

\* ------------------------------------------------------------------------
\* RawModel.Solve
\* ------------------------------------------------------------------------

\* The zero value of RawSolution: no session and an empty Solution.  A nil
\* slice and an empty one are not told apart in a solution.
ZeroRawSolution ==
    [obj |-> "nil", Status |-> "UnknownModelStatus",
     ColumnPrimal |-> <<>>, RowPrimal |-> <<>>,
     ColumnDual |-> <<>>, RowDual |-> <<>>,
     ColumnBasis |-> <<>>, RowBasis |-> <<>>, Objective |-> 0]

\* The calls of Solve that return a kHighsStatus, in the order made:
\* Highs_run, Highs_getSolution, Highs_getDoubleInfoValue for the objective,
\* Highs_getIntInfoValue for the dual solution status and for the basis
\* validity, Highs_getBasis.
SolveCalls == {"run", "getSolution", "objective", "dualStatus", "basisValidity", "getBasis"}

\* The basis-status codes the library is let to write: the five the package
\* knows and one it does not.
BasisCodes ==
    {"kHighsBasisStatusLower", "kHighsBasisStatusBasic", "kHighsBasisStatusUpper",
     "kHighsBasisStatusZero", "kHighsBasisStatusNonbasic", "other"}

\* Solve reads the basis only after every earlier call returned Ok and the
\* basis validity is valid.
BasisRead(a) ==
    /\ \A c \in SolveCalls : a.st[c] = "kHighsStatusOk"
    /\ a.basisValidity = "kHighsBasisValidityValid"

\* What the library may answer to the calls of one Solve on a session that
\* holds nr rows and nc columns.  One basis stands for all the bases Solve
\* does not read.
SolveAnswers(nr, nc) ==
    {a \in [st : StatusRuns(SolveCalls), modelStatus : ModelStatusCodes,
            colValue : [1 .. nc -> PrimalValues], rowValue : {Filled(nr, 4)},
            colDual : {Filled(nc, 0)}, rowDual : {Filled(nr, 0)},
            objective : {184},
            dualStatus : {"kHighsSolutionStatusFeasible",
                          "kHighsSolutionStatusInfeasible"},
            basisValidity : {"kHighsBasisValidityValid",
                             "kHighsBasisValidityInvalid"},
            colBasisStatus : [1 .. nc -> BasisCodes],
            rowBasisStatus : [1 .. nr -> {"kHighsBasisStatusLower", "other"}]] :
        ~BasisRead(a) =>
            /\ a.colBasisStatus = Filled(nc, "kHighsBasisStatusBasic")
            /\ a.rowBasisStatus = Filled(nr, "kHighsBasisStatusLower")}

\* What Solve returned, with the calls it made and what the library would
\* answer them with.
SolveReturned(soln, err, calls, a) ==
    [op |-> "RawModel.Solve", outcome |-> IF err.kind = "nil" THEN "ok" ELSE "error",
     soln |-> soln, err |-> err, calls |-> calls, st |-> a.st, answer |-> a]

SolvePanicked(calls, a) ==
    [op |-> "RawModel.Solve", outcome |-> "panic", soln |-> ZeroRawSolution,
     err |-> NilError, calls |-> calls, st |-> a.st, answer |-> a]

\* A Solve that assigns the dual slices whatever the dual-solution status.
WithDualsAlways(soln, a) ==
    [soln EXCEPT !.ColumnDual = a.colDual, !.RowDual = a.rowDual]

\* Assign dual slices only if the dual-solution status is "feasible".
WithDuals(soln, a) ==
    IF a.dualStatus = "kHighsSolutionStatusFeasible"
    THEN [soln EXCEPT !.ColumnDual = a.colDual, !.RowDual = a.rowDual]
    ELSE soln

\* A Solve that fetches the basis whenever the validity query succeeds.
BasisAvailableUnchecked(err, a) == err.kind = "nil"

\* if err == nil && bValid == int(C.kHighsBasisValidityValid)
BasisAvailable(err, a) ==
    err.kind = "nil" /\ a.basisValidity = "kHighsBasisValidityValid"

\* The conversion of the basis statuses from C to Go.
WithBasis(soln, a, nr, nc) ==
    [soln EXCEPT
        !.ColumnBasis = [i \in 1 .. nc |->
                            convertHighsBasisStatus(a.colBasisStatus[i])],
        !.RowBasis = [i \in 1 .. nr |->
                            convertHighsBasisStatus(a.rowBasisStatus[i])]]

\* func (m *RawModel) Solve() (*RawSolution, error)
rawSolve(lib, a) ==
    LET nc == lib.numCol
        nr == lib.numRow
        \* status := C.Highs_run(m.obj)
        err1 == newCallStatus(a.st["run"], "Highs_run", "Solve")
        c1 == <<"Highs_run">>
        \* soln.Status, nc, nr
        soln2 == [ZeroRawSolution EXCEPT !.obj = "session",
                     !.Status = convertHighsModelStatus(a.modelStatus)]
        c2 == c1 \o <<"Highs_getModelStatus", "Highs_getNumCol", "Highs_getNumRow">>
        \* status = C.Highs_getSolution(...)
        err3 == newCallStatus(a.st["getSolution"], "Highs_getSolution", "Solve")
        c3 == Append(c2, "Highs_getSolution")
        soln3 == [soln2 EXCEPT !.ColumnPrimal = a.colValue, !.RowPrimal = a.rowValue]
        \* soln.Objective, err = soln.GetFloat64Info("objective_function_value")
        err4 == newCallStatus(a.st["objective"], "Highs_getDoubleInfoValue",
                              "GetFloat64Info")
        c4 == Append(c3, "Highs_getDoubleInfoValue")
        soln4 == [soln3 EXCEPT !.Objective = a.objective]
        \* dss, err := soln.GetIntInfo("dual_solution_status")
        err5 == newCallStatus(a.st["dualStatus"], "Highs_getIntInfoValue", "GetIntInfo")
        c5 == Append(c4, "Highs_getIntInfoValue")
        soln5 == WithDuals(soln4, a)
        \* bValid, err := soln.GetIntInfo("basis_validity")
        err6 == newCallStatus(a.st["basisValidity"], "Highs_getIntInfoValue",
                              "GetIntInfo")
        c6 == Append(c5, "Highs_getIntInfoValue")
        \* status = C.Highs_getBasis(...)
        err7 == newCallStatus(a.st["getBasis"], "Highs_getBasis", "Solve")
        c7 == Append(c6, "Highs_getBasis")
        soln7 == WithBasis(soln5, a, nr, nc)
    IN IF err1.kind # "nil" THEN SolveReturned(ZeroRawSolution, err1, c1, a)
       ELSE IF nc = 0 \/ nr = 0 THEN SolvePanicked(c2, a)
       ELSE IF err3.kind # "nil" THEN SolveReturned(ZeroRawSolution, err3, c3, a)
       ELSE IF err4.kind # "nil" THEN SolveReturned(ZeroRawSolution, err4, c4, a)
       ELSE IF err5.kind # "nil" THEN SolveReturned(ZeroRawSolution, err5, c5, a)
       ELSE IF ~BasisAvailable(err6, a)
       THEN SolveReturned(soln5, NilError, c6, a)
       ELSE IF err7.kind # "nil" THEN SolveReturned(ZeroRawSolution, err7, c7, a)
       ELSE SolveReturned(soln7, NilError, c7, a)

\* ------------------------------------------------------------------------
\* The lifetime of a session
\* ------------------------------------------------------------------------

\* The heap after a method that called NewRawModel has returned.  The
\* RawModel it made is the caller's when the method returned it; on every
\* other return the method hands back an empty &RawModel{} and nothing
\* refers to the one it made.
HeapAfterNew(h, c) ==
    IF c.calls = <<>> THEN h
    ELSE [h EXCEPT !.rm = IF c.outcome = "ok" THEN "reachable" ELSE "unreachable"]

\* The heap after RawModel.Solve has returned.  The RawSolution of a
\* successful Solve has the session pointer in soln.obj, copied from m.obj;
\* it has no reference to the RawModel.
HeapAfterSolve(h, c) ==
    IF c.outcome = "ok" THEN [h EXCEPT !.soln = "reachable"] ELSE h

\* func (s *RawSolution) GetIntInfo(info string) (int, error), with st the
\* status of Highs_getIntInfoValue.  A call on the pointer of a destroyed
\* session is a use of freed memory: it may return anything, or crash.
getIntInfo(lib, st, wild) ==
    IF lib.sessions = 0
    THEN [op |-> "RawSolution.GetIntInfo", session |-> "destroyed",
          outcome |-> wild, err |-> NilError,
          calls |-> <<"Highs_getIntInfoValue">>]
    ELSE LET err == newCallStatus(st, "Highs_getIntInfoValue", "GetIntInfo")
         IN [op |-> "RawSolution.GetIntInfo", session |-> "live",
             outcome |-> IF err.kind = "nil" THEN "ok" ELSE "error",
             err |-> err, calls |-> <<"Highs_getIntInfoValue">>]

\* ------------------------------------------------------------------------
\* Specification of the canonicalizer and the CSR encoder
\* ------------------------------------------------------------------------

NoOutput == [op |-> "none", err |-> "nil", nonzeros |-> <<>>,
             start |-> <<>>, index |-> <<>>, value |-> <<>>]

InitCanon ==
    /\ nz \in SeqsUpTo(Nonzero, MaxLen)
    /\ tri \in BOOLEAN
    /\ out = NoOutput
    /\ model = ZeroModel /\ kind = "Model"
    /\ call = NoCall /\ highs = NoSession /\ history = <<>> /\ heap = NoHeap

\* A call of filterNonzeros(nz, tri).
FilterNonzeros ==
    /\ out.op = "none"
    /\ LET f == filterNonzeros(nz, tri)
       IN out' = [NoOutput EXCEPT !.op = "filterNonzeros", !.err = f.err,
                                  !.nonzeros = f.nonzeros]
    /\ UNCHANGED <<nz, tri, modelVars>>

\* A call of nonzerosToCSR(nz, tri).
NonzerosToCSR ==
    /\ out.op = "none"
    /\ LET c == nonzerosToCSR(nz, tri)
       IN out' = [NoOutput EXCEPT !.op = "nonzerosToCSR", !.err = c.err,
                                  !.start = c.start, !.index = c.index,
                                  !.value = c.value]
    /\ UNCHANGED <<nz, tri, modelVars>>

\* A second call of filterNonzeros, on what the first call returned.
FilterAgain ==
    /\ out.op = "filterNonzeros" /\ out.err = "nil"
    /\ LET f == filterNonzeros(out.nonzeros, tri)
       IN out' = [op |-> "filterNonzeros twice", err |-> f.err,
                  nonzeros |-> f.nonzeros, first |-> out.nonzeros]
    /\ UNCHANGED <<nz, tri, modelVars>>

NextCanon == FilterNonzeros \/ NonzerosToCSR \/ FilterAgain

SpecCanon == InitCanon /\ [][NextCanon]_vars

\* ------------------------------------------------------------------------
\* Specification of dimension inference
\* ------------------------------------------------------------------------

\* Entries of a model's constraint matrix; one coefficient value is enough
\* where only the indices are read.
CoeffEntries == {e \in Nonzero : e.Val = 1}

\* The models dimension inference is run on: every combination of nil,
\* empty and non-empty cost and bound vectors, over a small matrix.
InitDims ==
    /\ nz = <<>> /\ tri = FALSE /\ out = NoOutput /\ history = <<>> /\ heap = NoHeap
    /\ \E costs \in Slices({1}, MaxVec),
          cl \in Slices({0}, MaxVec), cu \in Slices({4}, MaxVec),
          rl \in Slices({5}, MaxVec), ru \in Slices({7}, MaxVec),
          matrix \in SeqsUpTo(CoeffEntries, MaxCoeff) :
            model = [ZeroModel EXCEPT !.ColCosts = costs,
                        !.ColLower = cl, !.ColUpper = cu,
                        !.RowLower = rl, !.RowUpper = ru,
                        !.CoeffMatrix = matrix]
    /\ kind = "Model"
    /\ call = NoCall /\ highs = NoSession

\* A call of m.replaceNilSlices().
ReplaceNilSlices ==
    /\ call.op = "none"
    /\ LET r == replaceNilSlices(model)
       IN call' = [op |-> "replaceNilSlices", nr |-> r.nr, nc |-> r.nc,
                   cm |-> r.cm, ok |-> r.ok]
    /\ UNCHANGED <<model, kind, highs, canonVars, history, heap>>

NextDims == ReplaceNilSlices

SpecDims == InitDims /\ [][NextDims]_vars

\* ------------------------------------------------------------------------
\* Specification of the calls that validate a model before HiGHS sees it
\* ------------------------------------------------------------------------

\* Cost coefficients of a model.
CostVals == {1, 2}

\* Entries of the matrices of a model handed to Solve or ToRawModel: two
\* rows and columns, and the indices that are not valid.
ModelEntries == [Row : -1 .. 1, Col : -1 .. 1, Val : {1}]

\* The models Solve and ToRawModel are called on.  An LPModel varies in its
\* costs, offset, column lower bounds and matrix; a MIPModel in its variable
\* types in place of the bounds; a QPModel in its Hessian in place of the
\* offset, the bounds and the cost values.
LPModels ==
    {[ZeroModel EXCEPT !.ColCosts = costs, !.Offset = offset,
                       !.ColLower = cl, !.CoeffMatrix = matrix] :
        costs \in Slices(CostVals, MaxVec), offset \in {0, 3},
        cl \in Slices({0}, MaxVec),
        matrix \in SeqsUpTo(ModelEntries, MaxCoeff)}

MIPModels ==
    {[ZeroModel EXCEPT !.ColCosts = costs, !.Offset = offset,
                       !.VarTypes = vt, !.CoeffMatrix = matrix] :
        costs \in Slices(CostVals, MaxVec), offset \in {0, 3},
        vt \in Slices({"IntegerType"}, MaxVec),
        matrix \in SeqsUpTo(ModelEntries, MaxCoeff)}

QPModels ==
    {[ZeroModel EXCEPT !.ColCosts = costs, !.HessianMatrix = hessian,
                       !.CoeffMatrix = matrix] :
        costs \in Slices({1}, MaxVec),
        hessian \in SeqsUpTo(ModelEntries, MaxCoeff),
        matrix \in SeqsUpTo(ModelEntries, MaxCoeff)}

\* A RawModel fresh from NewRawModel.
NewSession == [NoSession EXCEPT !.sessions = 1]

InitSolve ==
    /\ nz = <<>> /\ tri = FALSE /\ out = NoOutput /\ history = <<>>
    /\ call = NoCall
    /\ \/ kind = "LPModel" /\ model \in LPModels /\ highs = NoSession
       \/ kind = "MIPModel" /\ model \in MIPModels /\ highs = NoSession
       \/ kind = "QPModel" /\ model \in QPModels /\ highs = NoSession
       \/ kind = "RawModel" /\ model = ZeroModel /\ highs = NewSession
    /\ heap = IF kind = "RawModel" THEN HeldModel ELSE NoHeap

\* A call of m.Solve() on an LPModel.
LPSolve ==
    /\ call.op = "none" /\ kind = "LPModel"
    /\ LET d == InferDims(model)
       IN \E b \in CallAnswers(d.nr, d.nc) : call' = lpSolve(model, b)
    /\ model' = ModelAfter(model, kind)
    /\ UNCHANGED <<kind, highs, canonVars, history, heap>>

\* A call of m.Solve() on a MIPModel.
MIPSolve ==
    /\ call.op = "none" /\ kind = "MIPModel"
    /\ LET d == InferDims(model)
       IN \E b \in CallAnswers(d.nr, d.nc) : call' = mipSolve(model, b)
    /\ model' = ModelAfter(model, kind)
    /\ UNCHANGED <<kind, highs, canonVars, history, heap>>

\* A call of m.Solve() on a QPModel.
QPSolve ==
    /\ call.op = "none" /\ kind = "QPModel"
    /\ LET d == InferDims(model)
       IN \E b \in CallAnswers(d.nr, d.nc) : call' = qpSolve(model, b)
    /\ model' = ModelAfter(model, kind)
    /\ UNCHANGED <<kind, highs, canonVars, history, heap>>

\* A call of m.ToRawModel() on an LPModel.
ToRawModel ==
    /\ call.op = "none" /\ kind = "LPModel"
    /\ \E st \in StatusRuns({"get", "clear", "pass", "restore"}) :
        LET r == toRawModel(model, highs, st)
        IN call' = r.call /\ highs' = r.lib /\ heap' = HeapAfterNew(heap, r.call)
    /\ model' = ModelAfter(model, kind)
    /\ UNCHANGED <<kind, canonVars, history>>

\* A call of m.AddColumnBounds(lb, ub) on a RawModel.
AddColumnBounds ==
    /\ call.op = "none" /\ kind = "RawModel"
    /\ \E lb \in Slices({0}, MaxVec), ub \in Slices({4}, MaxVec),
          st \in HighsStatus :
        LET r == addColumnBounds(lb, ub, highs, st)
        IN call' = [r.call EXCEPT !.rm = [lb |-> lb, ub |-> ub]] /\ highs' = r.lib
    /\ UNCHANGED <<model, kind, canonVars, history, heap>>

\* The bound values a caller hands to prepareBounds.
LowerVals == {0, 1}
UpperVals == {4, 5}

\* A call of prepareBounds(lb, ub), as the Add methods of a RawModel make it.
PrepareBounds ==
    /\ call.op = "none" /\ kind = "RawModel"
    /\ \E lb \in Slices(LowerVals, MaxVec), ub \in Slices(UpperVals, MaxVec) :
        LET r == prepareBounds(lb, ub)
        IN call' = [op |-> "prepareBounds", lb |-> lb, ub |-> ub, out |-> r,
                    outcome |-> IF r.err = NilError THEN "ok" ELSE "error",
                    err |-> r.err, calls |-> <<>>]
    /\ UNCHANGED <<model, kind, highs, canonVars, history, heap>>

\* The collector runs the finalizer NewRawModel set on a RawModel nothing
\* refers to any more: C.Highs_destroy(m.obj).
Finalize ==
    /\ heap.rm = "unreachable"
    /\ heap' = [heap EXCEPT !.rm = "finalized", !.destroyed = @ + 1]
    /\ highs' = [highs EXCEPT !.sessions = @ - 1]
    /\ UNCHANGED <<model, kind, call, canonVars, history>>

NextSolve ==
    \/ LPSolve \/ MIPSolve \/ QPSolve \/ ToRawModel \/ AddColumnBounds
    \/ PrepareBounds \/ Finalize

SpecSolve == InitSolve /\ [][NextSolve]_vars

\* ------------------------------------------------------------------------
\* Specification of Solve and ToRawModel on models that need defaulting,
\* sorting and de-duplication
\* ------------------------------------------------------------------------

\* Entries of a matrix over two rows and two columns.
FrameEntries == [Row : 0 .. 1, Col : 0 .. 1, Val : Vals]

\* Models whose column lower bounds and row upper bounds are nil or
\* supplied, the former of consistent length or not, and whose matrix is in
\* any order, duplicates included.  An LPModel and a MIPModel vary in the coefficient
\* matrix; a QPModel has one constraint and varies in its Hessian.
InitFrame ==
    /\ nz = <<>> /\ tri = FALSE /\ out = NoOutput /\ history = <<>> /\ heap = NoHeap
    /\ call = NoCall /\ highs = NoSession
    /\ kind \in {"LPModel", "MIPModel", "QPModel"}
    /\ \E cl \in Slices({0}, MaxVec), ru \in {NilSlice, Slice(<<7>>)},
          matrix \in SeqsUpTo(FrameEntries, MaxHess) :
            model = IF kind = "QPModel"
                    THEN [ZeroModel EXCEPT !.ColLower = cl, !.RowUpper = ru,
                            !.CoeffMatrix = <<[Row |-> 0, Col |-> 1, Val |-> 1]>>,
                            !.HessianMatrix = matrix]
                    ELSE [ZeroModel EXCEPT !.ColLower = cl, !.RowUpper = ru,
                            !.CoeffMatrix = matrix]

NextFrame == LPSolve \/ MIPSolve \/ QPSolve \/ ToRawModel

SpecFrame == InitFrame /\ [][NextFrame]_vars

\* ------------------------------------------------------------------------
\* Specification of a model built row by row
\* ------------------------------------------------------------------------

\* The coefficient vectors handed to AddDenseRow: up to two columns, zero
\* coefficients included.
DenseCoeffs == UNION {[1 .. n -> {0, 1}] : n \in 0 .. 2}

\* The lower and upper bound handed to AddDenseRow.
DenseBounds == {<<5, 7>>, <<6, 8>>}

\* var m highs.Model
InitRows ==
    /\ nz = <<>> /\ tri = FALSE /\ out = NoOutput /\ history = <<>> /\ heap = NoHeap
    /\ model = ZeroModel /\ kind = "Model"
    /\ call = NoCall /\ highs = NoSession

\* A call of m.AddDenseRow(lb, coeffs, ub).
AddDenseRow ==
    /\ call.op = "none" /\ kind = "Model" /\ Len(history) < MaxRows
    /\ \E b \in DenseBounds, coeffs \in DenseCoeffs :
        /\ model' = addDenseRow(model, b[1], coeffs, b[2])
        /\ history' = Append(history, [op |-> "AddDenseRow", lb |-> b[1],
                                       coeffs |-> coeffs, ub |-> b[2]])
    /\ UNCHANGED <<kind, call, highs, canonVars, heap>>

NextRows == AddDenseRow \/ ReplaceNilSlices

SpecRows == InitRows /\ [][NextRows]_vars

\* ------------------------------------------------------------------------
\* Specification of a model built by assignments and by AddDenseRow
\* ------------------------------------------------------------------------

\* The values a caller assigns to m.RowLower, m.RowUpper and m.CoeffMatrix.
AssignedLower == {NilSlice, Slice(<<5>>)}
AssignedUpper == {NilSlice, Slice(<<7>>)}
AssignedMatrix ==
    {<<>>, <<[Row |-> 0, Col |-> 0, Val |-> 1]>>,
     <<[Row |-> 1, Col |-> 0, Val |-> 1]>>}

\* m.RowLower = v, m.RowUpper = v or m.CoeffMatrix = v: the fields of a
\* Model are exported.
Assign ==
    /\ call.op = "none" /\ kind = "Model" /\ Len(history) < MaxRows
    /\ \/ \E v \in AssignedLower :
            /\ model' = [model EXCEPT !.RowLower = v]
            /\ history' = Append(history, [op |-> "assign RowLower"])
       \/ \E v \in AssignedUpper :
            /\ model' = [model EXCEPT !.RowUpper = v]
            /\ history' = Append(history, [op |-> "assign RowUpper"])
       \/ \E v \in AssignedMatrix :
            /\ model' = [model EXCEPT !.CoeffMatrix = v]
            /\ history' = Append(history, [op |-> "assign CoeffMatrix"])
    /\ UNCHANGED <<kind, call, highs, canonVars, heap>>

NextAssign == Assign \/ AddDenseRow

SpecAssign == InitRows /\ [][NextAssign]_vars

\* ------------------------------------------------------------------------
\* Specification of Solve on a MIPModel with variable types
\* ------------------------------------------------------------------------

\* MIPModels with one constraint over one or two columns and every list of
\* at most MaxVec variable types.
InitMIP ==
    /\ nz = <<>> /\ tri = FALSE /\ out = NoOutput /\ history = <<>> /\ heap = NoHeap
    /\ kind = "MIPModel" /\ call = NoCall /\ highs = NoSession
    /\ \E vt \in Slices(VariableTypes, MaxVec),
          matrix \in {<<[Row |-> 0, Col |-> 0, Val |-> 1]>>,
                      <<[Row |-> 0, Col |-> 1, Val |-> 1]>>} :
            model = [ZeroModel EXCEPT !.VarTypes = vt, !.CoeffMatrix = matrix]

NextMIP == MIPSolve

SpecMIP == InitMIP /\ [][NextMIP]_vars

\* ------------------------------------------------------------------------
\* Specification of Solve on a QPModel with a Hessian
\* ------------------------------------------------------------------------

\* Entries of a Hessian over two columns, the lower-triangular one included.
HessEntries == [Row : 0 .. 1, Col : 0 .. 1, Val : Vals]

\* QPModels with one constraint over one or two columns, nil or full-length
\* costs, and every Hessian of at most MaxHess entries.
InitQP ==
    /\ nz = <<>> /\ tri = FALSE /\ out = NoOutput /\ history = <<>> /\ heap = NoHeap
    /\ kind = "QPModel" /\ call = NoCall /\ highs = NoSession
    /\ \E costs \in {NilSlice, Slice(<<1>>), Slice(<<1, 2>>)},
          offset \in {0, 3},
          matrix \in {<<[Row |-> 0, Col |-> 0, Val |-> 1]>>,
                      <<[Row |-> 0, Col |-> 1, Val |-> 1]>>},
          hessian \in SeqsUpTo(HessEntries, MaxHess) :
            model = [ZeroModel EXCEPT !.ColCosts = costs, !.Offset = offset,
                        !.CoeffMatrix = matrix, !.HessianMatrix = hessian]

NextQP == QPSolve

SpecQP == InitQP /\ [][NextQP]_vars

\* ------------------------------------------------------------------------
\* Specification of Solve on a RawModel
\* ------------------------------------------------------------------------

\* A RawModel whose session holds a model of up to MaxVec rows and columns.
InitRaw ==
    /\ nz = <<>> /\ tri = FALSE /\ out = NoOutput /\ history = <<>>
    /\ heap = HeldModel
    /\ model = ZeroModel /\ kind = "RawModel" /\ call = NoCall
    /\ \E nc \in 0 .. MaxVec, nr \in 0 .. MaxVec :
            highs = [NewSession EXCEPT !.numCol = nc, !.numRow = nr]

\* A call of m.Solve() on a RawModel.
RawSolve ==
    /\ call.op = "none" /\ kind = "RawModel"
    /\ heap.rm = "reachable"
    /\ \E a \in SolveAnswers(highs.numRow, highs.numCol) :
        /\ call' = rawSolve(highs, a)
        /\ heap' = HeapAfterSolve(heap, call')
    /\ UNCHANGED <<model, kind, highs, canonVars, history>>

NextRaw == RawSolve

SpecRaw == InitRaw /\ [][NextRaw]_vars

\* ------------------------------------------------------------------------
\* Specification of a RawModel, its RawSolution and the collector
\* ------------------------------------------------------------------------

\* The values a read through a dangling session pointer can end in.
Wild == {"ok", "error", "crash"}

\* A RawModel of one column and one row, held by the caller.
InitLife ==
    /\ nz = <<>> /\ tri = FALSE /\ out = NoOutput /\ history = <<>>
    /\ heap = HeldModel
    /\ model = ZeroModel /\ kind = "RawModel" /\ call = NoCall
    /\ highs = [NewSession EXCEPT !.numCol = 1, !.numRow = 1]

\* The caller's last reference to the RawModel goes away, as when a function
\* that built the model returns the solution only.
DropModel ==
    /\ heap.rm = "reachable"
    /\ heap' = [heap EXCEPT !.rm = "unreachable"]
    /\ history' = Append(history, [op |-> "drop RawModel"])
    /\ UNCHANGED <<model, kind, call, highs, canonVars>>

\* A call of soln.GetIntInfo(info) on the RawSolution Solve returned.
GetIntInfo ==
    /\ heap.soln = "reachable" /\ call.op = "RawModel.Solve"
    /\ \E st \in HighsStatus, wild \in Wild :
            call' = getIntInfo(highs, st, wild)
    /\ UNCHANGED <<model, kind, highs, canonVars, history, heap>>

NextLife == RawSolve \/ DropModel \/ Finalize \/ GetIntInfo

SpecLife == InitLife /\ [][NextLife]_vars

\* ------------------------------------------------------------------------
\* Specification of the conversion of model statuses
\* ------------------------------------------------------------------------

\* The kHighsModelStatus values of highs-externs.h, one more that a later
\* HiGHS has, and "other" for any other integer.
HighsModelStatusCodes ==
    {"kHighsModelStatusNotset", "kHighsModelStatusLoadError",
     "kHighsModelStatusModelError", "kHighsModelStatusPresolveError",
     "kHighsModelStatusSolveError", "kHighsModelStatusPostsolveError",
     "kHighsModelStatusModelEmpty", "kHighsModelStatusOptimal",
     "kHighsModelStatusInfeasible", "kHighsModelStatusUnboundedOrInfeasible",
     "kHighsModelStatusUnbounded", "kHighsModelStatusObjectiveBound",
     "kHighsModelStatusObjectiveTarget", "kHighsModelStatusTimeLimit",
     "kHighsModelStatusIterationLimit", "kHighsModelStatusUnknown",
     "kHighsModelStatusSolutionLimit", "other"}

InitStatus ==
    /\ nz = <<>> /\ tri = FALSE /\ out = NoOutput /\ history = <<>> /\ heap = NoHeap
    /\ model = ZeroModel /\ kind = "Model"
    /\ call = NoCall /\ highs = NoSession

\* Two calls of convertHighsModelStatus, on the statuses of two solves.
ConvertHighsModelStatus ==
    /\ call.op = "none"
    /\ \E a \in HighsModelStatusCodes, b \in HighsModelStatusCodes :
        call' = [op |-> "convertHighsModelStatus", hms |-> <<a, b>>,
                 status |-> <<convertHighsModelStatus(a),
                              convertHighsModelStatus(b)>>]
    /\ UNCHANGED <<model, kind, highs, canonVars, history, heap>>

NextStatus == ConvertHighsModelStatus

SpecStatus == InitStatus /\ [][NextStatus]_vars

\* ------------------------------------------------------------------------
\* Specification of Solve on an LPModel whose rows may have no entry
\* ------------------------------------------------------------------------

\* Entries of a one-column matrix of up to three rows.
StartEntries == [Row : 0 .. 2, Col : {0}, Val : {1}]

\* LPModels with row bounds that are nil or of equal length, over such a
\* matrix.
StartModels ==
    {[ZeroModel EXCEPT !.RowLower = b[1], !.RowUpper = b[2],
                       !.CoeffMatrix = matrix] :
        b \in {<<NilSlice, NilSlice>>} \cup
              {<<Slice(Filled(n, 5)), Slice(Filled(n, 7))>> : n \in 1 .. MaxVec},
        matrix \in SeqsUpTo(StartEntries, MaxHess)}

\* An LPModel as assigned, or with one dense row added to it.
InitStart ==
    /\ nz = <<>> /\ tri = FALSE /\ out = NoOutput /\ heap = NoHeap
    /\ kind = "LPModel" /\ call = NoCall /\ highs = NoSession
    /\ \E m \in StartModels :
        \/ model = m /\ history = <<>>
        \/ \E coeffs \in DenseCoeffs :
            /\ model = addDenseRow(m, 5, coeffs, 7)
            /\ history = <<[op |-> "AddDenseRow", lb |-> 5,
                            coeffs |-> coeffs, ub |-> 7]>>

NextStart == LPSolve

SpecStart == InitStart /\ [][NextStart]_vars

\* ------------------------------------------------------------------------
\* Properties of the canonicalizer and the CSR encoder
\* ------------------------------------------------------------------------

Key(e) == <<e.Row, e.Col>>

KeysOf(list) == {Key(list[k]) : k \in 1 .. Len(list)}

\* Row-major order on keys, strict.
KeyBefore(a, b) == a[1] < b[1] \/ (a[1] = b[1] /\ a[2] < b[2])

NonNegative(list) ==
    \A k \in 1 .. Len(list) : list[k].Row >= 0 /\ list[k].Col >= 0

Filtered == out.op = "filterNonzeros" /\ out.err = "nil"

Encoded == out.op = "nonzerosToCSR" /\ out.err = "nil"

\* C1: for a list of entries with non-negative indices, the sequence
\* filterNonzeros returns has pairwise distinct (row, col) keys, in strictly
\* ascending row-major order, and its keys are exactly the keys of the input.
C1_CanonicalKeys ==
    (Filtered /\ NonNegative(nz)) =>
        LET c == out.nonzeros IN
        /\ \A i, j \in 1 .. Len(c) : i # j => Key(c[i]) # Key(c[j])
        /\ \A i, j \in 1 .. Len(c) : i < j => KeyBefore(Key(c[i]), Key(c[j]))
        /\ KeysOf(c) = KeysOf(nz)

\* An unsorted input of three entries, two of them with one key, has been
\* canonicalized to two entries.
C1_Witness ==
    /\ Filtered
    /\ Len(nz) = 3
    /\ Cardinality(KeysOf(nz)) = 2
    /\ KeyBefore(Key(nz[3]), Key(nz[1]))
    /\ Len(out.nonzeros) = 2

\* C2: when several input entries share a key, the one canonical entry of
\* that key carries the value of the entry that comes last in the input.
C2_LastValueWins ==
    Filtered =>
        \A k \in 1 .. Len(nz) :
            LET same == {j \in 1 .. Len(nz) : Key(nz[j]) = Key(nz[k])}
                last == CHOOSE j \in same : \A h \in same : h <= j
                hits == {i \in 1 .. Len(out.nonzeros) :
                            Key(out.nonzeros[i]) = Key(nz[k])}
            IN /\ Cardinality(hits) = 1
               /\ \A i \in hits : out.nonzeros[i].Val = nz[last].Val

\* Two entries of one key with different values, separated in the input by
\* an entry of a smaller key, have been canonicalized.
C2_Witness ==
    /\ Filtered
    /\ Len(nz) = 3
    /\ Key(nz[1]) = Key(nz[3])
    /\ nz[1].Val # nz[3].Val
    /\ KeyBefore(Key(nz[2]), Key(nz[1]))
    /\ \E i \in 1 .. Len(out.nonzeros) :
            Key(out.nonzeros[i]) = Key(nz[3]) /\ out.nonzeros[i].Val = nz[3].Val

\* The rows that hold at least one canonical entry.
RowsOf(list) == {list[k].Row : k \in 1 .. Len(list)}

\* The position, counted from 1, of the first entry of row r in list.
FirstOfRow(list, r) ==
    CHOOSE k \in 1 .. Len(list) :
        list[k].Row = r /\ \A h \in 1 .. Len(list) : list[h].Row = r => k <= h

\* C3: nonzerosToCSR returns index and value with one element per canonical
\* entry, in canonical order, and start with one element per row that holds
\* an entry, in ascending row order, each the zero-based position in value
\* of that row's first entry; start is strictly increasing and starts at 0.
C3_CSRShape ==
    Encoded =>
        LET c    == filterNonzeros(nz, tri).nonzeros
            rows == RowsOf(c)
        IN /\ Len(out.index) = Len(c)
           /\ Len(out.value) = Len(c)
           /\ \A k \in 1 .. Len(c) :
                  out.index[k] = c[k].Col /\ out.value[k] = c[k].Val
           /\ Len(out.start) = Cardinality(rows)
           /\ \A r \in rows :
                  LET n == Cardinality({q \in rows : q <= r})
                  IN out.start[n] = FirstOfRow(c, r) - 1
           /\ \A i, j \in 1 .. Len(out.start) :
                  i < j => out.start[i] < out.start[j]
           /\ (c # <<>>) => out.start[1] = 0

\* Three entries in two rows, given out of order, have been encoded: the
\* second row starts at offset 2.
C3_Witness ==
    /\ Encoded
    /\ Len(nz) = 3
    /\ nz[1].Row > nz[2].Row
    /\ out.start = <<0, 2>>
    /\ Len(out.value) = 3

\* ------------------------------------------------------------------------
\* Properties of dimension inference
\* ------------------------------------------------------------------------

\* The largest element of a finite non-empty set of integers.
MaxOf(S) == CHOOSE x \in S : \A y \in S : y <= x

Inferred == call.op = "replaceNilSlices"

\* C4: when replaceNilSlices succeeds, numRows is the maximum of the largest
\* row index of the constraint matrix plus one, len(RowLower) and
\* len(RowUpper); numCols is at least the maximum of the largest column
\* index plus one, len(ColCosts), len(ColLower) and len(ColUpper); both are
\* 0 for a model with no entries and no vectors.
C4_InferredDimensions ==
    (Inferred /\ call.ok) =>
        LET matrix == model.CoeffMatrix
            rows == {matrix[k].Row + 1 : k \in 1 .. Len(matrix)}
            cols == {matrix[k].Col + 1 : k \in 1 .. Len(matrix)}
        IN /\ call.nr = MaxOf(rows \cup {0, Len(model.RowLower.elems),
                                         Len(model.RowUpper.elems)})
           /\ call.nc >= MaxOf(cols \cup {0, Len(model.ColCosts.elems),
                                          Len(model.ColLower.elems),
                                          Len(model.ColUpper.elems)})
           /\ (model = ZeroModel => call.nr = 0 /\ call.nc = 0)

\* Inference has succeeded on a model whose matrix entry implies more rows
\* and columns than any vector does.
C4_Witness ==
    /\ Inferred /\ call.ok
    /\ Len(model.CoeffMatrix) = 1
    /\ model.CoeffMatrix[1].Row = 1 /\ model.CoeffMatrix[1].Col = 1
    /\ Len(model.ColCosts.elems) = 1
    /\ model.RowLower.isNil /\ model.RowUpper.isNil
    /\ call.nr = 2 /\ call.nc = 2

\* The explicitly supplied vectors whose length differs from the inferred
\* dimension.
Mismatched(m) ==
    LET d == InferDims(m) IN
    {f \in {"ColCosts", "ColLower", "ColUpper"} :
        ~m[f].isNil /\ Len(m[f].elems) # d.nc}
    \cup
    {f \in {"RowLower", "RowUpper"} :
        ~m[f].isNil /\ Len(m[f].elems) # d.nr}

\* C5: dimension reconciliation fails whenever an explicitly supplied
\* vector has a length different from the inferred dimension, a cost vector
\* shorter than the column count implied by the matrix included.
C5_MismatchRejected ==
    (Inferred /\ Mismatched(model) # {}) => ~call.ok

\* ------------------------------------------------------------------------
\* Properties of the calls that validate a model before HiGHS sees it
\* ------------------------------------------------------------------------

\* The errors of canonicalization, dimension inference and bound
\* preparation.
ValidationErrors ==
    {"InvalidIndex", "NotUpperTriangular", "InconsistentDimensions",
     "LengthMismatch"}

\* C6: a canonicalization, dimension or bound-length error is returned
\* before any call into HiGHS: the method that returns it has created no
\* session and issued no pass, add or solve call.
C6_ValidationBeforeBackend ==
    (call.op # "none" /\ call.outcome = "error"
        /\ call.err.kind \in ValidationErrors) =>
            /\ call.calls = <<>>
            /\ highs = IF kind = "RawModel" THEN NewSession ELSE NoSession

\* Solve on a QPModel has refused a lower-triangular Hessian entry without
\* calling HiGHS.
C6_Witness ==
    /\ call.op = "QPModel.Solve" /\ call.outcome = "error"
    /\ call.err.kind = "NotUpperTriangular"
    /\ \E k \in 1 .. Len(model.HessianMatrix) :
            model.HessianMatrix[k].Row > model.HessianMatrix[k].Col
    /\ call.calls = <<>> /\ highs = NoSession

\* The sum of f over the indices 1 .. n.
RECURSIVE SumTo(_, _)
SumTo(f, n) == IF n = 0 THEN 0 ELSE SumTo(f, n - 1) + f[n]

\* The cost of column i in the defaulted snapshot of the model.
CostOf(i) == IF model.ColCosts.isNil THEN 0 ELSE model.ColCosts.elems[i]

\* offset + sum of cost_i * primal_i over the columns of the solution
\* returned, in thirty-seconds (primal values are in quarters).
LinearValue ==
    LET primal == call.soln.ColumnPrimal
    IN 32 * model.Offset
       + 8 * SumTo([i \in 1 .. Len(primal) |-> CostOf(i) * primal[i]],
                   Len(primal))

\* C9: the Objective of a solution returned by Solve on an LPModel or a
\* MIPModel is offset + sum over i of cost_i * primal_i, with the costs of
\* the defaulted snapshot.
C9_LinearObjective ==
    (call.op \in {"LPModel.Solve", "MIPModel.Solve"} /\ call.outcome = "ok") =>
        call.soln.Objective = LinearValue

\* Costs [1, 1], offset 3 and primal [0.5, 2.25] have given 5.75.
C9_Witness ==
    /\ call.op \in {"LPModel.Solve", "MIPModel.Solve"} /\ call.outcome = "ok"
    /\ model.ColCosts.elems = <<1, 1>> /\ model.Offset = 3
    /\ call.soln.ColumnPrimal = <<2, 9>>
    /\ call.soln.Objective = 184

\* The sum of f over the finite set S.
RECURSIVE SumOver(_, _)
SumOver(f, S) ==
    IF S = {} THEN 0
    ELSE LET x == CHOOSE y \in S : TRUE IN f[x] + SumOver(f, S \ {x})

\* The sum over the distinct keys (r, c) of the model's Hessian, each with
\* the value h supplied last for it, of p_r * p_c * h / 2 on the diagonal
\* and p_r * p_c * h off it, in thirty-seconds.
QuadraticValue ==
    LET H == model.HessianMatrix
        p == call.soln.ColumnPrimal
        keys == {Key(H[k]) : k \in 1 .. Len(H)}
        h(key) == H[MaxOf({k \in 1 .. Len(H) : Key(H[k]) = key})].Val
        term(key) == (IF key[1] = key[2] THEN 1 ELSE 2)
                        * p[key[1] + 1] * p[key[2] + 1] * h(key)
    IN SumOver([key \in keys |-> term(key)], keys)

\* C10: the Objective of a solution returned by Solve on a QPModel is the
\* linear value plus, for every entry (r, c, h) of the canonical
\* upper-triangular Hessian, p_r * p_c * h / 2 when r = c and p_r * p_c * h
\* when r # c; a key supplied several times contributes once.
C10_QuadraticObjective ==
    (call.op = "QPModel.Solve" /\ call.outcome = "ok") =>
        call.soln.Objective = LinearValue + QuadraticValue

\* A Hessian that names the off-diagonal key (0, 1) twice, with values 1
\* and 2, and the primal [0.5, 2.25] have given 0.5 * 2.25 * 2 = 2.25.
C10_Witness ==
    /\ call.op = "QPModel.Solve" /\ call.outcome = "ok"
    /\ model.HessianMatrix = <<[Row |-> 0, Col |-> 1, Val |-> 1],
                               [Row |-> 0, Col |-> 1, Val |-> 2]>>
    /\ model.ColCosts.isNil /\ model.Offset = 0
    /\ call.soln.ColumnPrimal = <<2, 9>>
    /\ call.soln.Objective = 72

\* ------------------------------------------------------------------------
\* Properties of Solve on a RawModel
\* ------------------------------------------------------------------------

RawSolved == call.op = "RawModel.Solve" /\ call.outcome # "panic"

\* The solution carries the session, a model status and primal vectors of
\* the session's size.
Populated(soln) ==
    /\ soln.obj = "session"
    /\ soln.Status # "UnknownModelStatus"
    /\ Len(soln.ColumnPrimal) = highs.numCol
    /\ Len(soln.RowPrimal) = highs.numRow

\* C7: when Highs_run returns kHighsStatusWarning (and every later call
\* Ok), Solve returns the populated solution together with a CallStatus
\* that names Highs_run and whose IsWarning is true.
C7_WarningKeepsSolution ==
    (RawSolved /\ call.st["run"] = "kHighsStatusWarning") =>
        /\ Populated(call.soln)
        /\ call.err.kind = "CallStatus" /\ IsWarning(call.err)
        /\ call.err.CName = "Highs_run"

\* The name of the HiGHS function behind each status-returning call.
CNameOf(c) ==
    CASE c = "run" -> "Highs_run"
      [] c = "getSolution" -> "Highs_getSolution"
      [] c = "objective" -> "Highs_getDoubleInfoValue"
      [] c = "dualStatus" -> "Highs_getIntInfoValue"
      [] c = "basisValidity" -> "Highs_getIntInfoValue"
      [] c = "getBasis" -> "Highs_getBasis"

\* The status-returning calls Solve has made, from the log of its calls.
Made(c) ==
    CASE c = "run" -> Len(call.calls) >= 1
      [] c = "getSolution" -> Len(call.calls) >= 5
      [] c = "objective" -> Len(call.calls) >= 6
      [] c = "dualStatus" -> Len(call.calls) >= 7
      [] c = "basisValidity" -> Len(call.calls) >= 8
      [] c = "getBasis" -> Len(call.calls) >= 9

\* C8: when a call Solve has made (run, get-solution, info query,
\* get-basis) returned kHighsStatusError, Solve returns an error that
\* carries the name of that call, and an empty solution.
C8_ErrorFailsSolve ==
    \A c \in SolveCalls :
        (RawSolved /\ Made(c) /\ call.st[c] = "kHighsStatusError") =>
            /\ call.outcome = "error"
            /\ call.err.kind = "CallStatus" /\ call.err.CName = CNameOf(c)
            /\ call.soln = ZeroRawSolution

\* Every status-returning call Solve makes is answered Ok.
AllOk == \A c \in SolveCalls : call.st[c] = "kHighsStatusOk"

\* C11: in a solution returned by Solve on a RawModel the column and row
\* dual vectors are present exactly when the dual-solution-status query
\* reported feasible; when it reports anything else they are absent and
\* Solve still succeeds.
C11_DualsGated ==
    /\ (RawSolved /\ call.outcome = "ok") =>
        IF call.answer.dualStatus = "kHighsSolutionStatusFeasible"
        THEN /\ call.soln.ColumnDual = call.answer.colDual
             /\ call.soln.RowDual = call.answer.rowDual
             /\ Len(call.soln.ColumnDual) = highs.numCol
             /\ Len(call.soln.RowDual) = highs.numRow
        ELSE call.soln.ColumnDual = <<>> /\ call.soln.RowDual = <<>>
    /\ (RawSolved /\ AllOk
            /\ call.answer.dualStatus # "kHighsSolutionStatusFeasible") =>
        call.outcome = "ok" /\ Populated(call.soln)

\* Solve has succeeded without duals after an infeasible dual status.
C11_Witness ==
    /\ RawSolved /\ call.outcome = "ok"
    /\ call.answer.dualStatus = "kHighsSolutionStatusInfeasible"
    /\ call.soln.ColumnDual = <<>> /\ call.soln.RowDual = <<>>
    /\ Len(call.soln.ColumnPrimal) = 2

\* The BasisStatus each raw code stands for.
BasisStatusOf(code) ==
    CASE code = "kHighsBasisStatusLower" -> "Lower"
      [] code = "kHighsBasisStatusBasic" -> "Basic"
      [] code = "kHighsBasisStatusUpper" -> "Upper"
      [] code = "kHighsBasisStatusZero" -> "Zero"
      [] code = "kHighsBasisStatusNonbasic" -> "NonBasic"
      [] OTHER -> "UnknownBasisStatus"

BasisPresent == call.soln.ColumnBasis # <<>> \/ call.soln.RowBasis # <<>>

\* C12: in a solution returned by Solve on a RawModel the basis vectors are
\* present only if the basis-validity query reported valid; when present
\* they have numCols and numRows elements, each the image of the raw code:
\* Lower, Basic, Upper, Zero, NonBasic, and Unknown for any other code.
C12_BasisGated ==
    (RawSolved /\ call.outcome = "ok" /\ BasisPresent) =>
        /\ call.answer.basisValidity = "kHighsBasisValidityValid"
        /\ call.st["basisValidity"] = "kHighsStatusOk"
        /\ Len(call.soln.ColumnBasis) = highs.numCol
        /\ Len(call.soln.RowBasis) = highs.numRow
        /\ \A i \in 1 .. highs.numCol :
            call.soln.ColumnBasis[i] = BasisStatusOf(call.answer.colBasisStatus[i])
        /\ \A i \in 1 .. highs.numRow :
            call.soln.RowBasis[i] = BasisStatusOf(call.answer.rowBasisStatus[i])

\* A basis with a code the package does not know has been returned.
C12_Witness ==
    /\ RawSolved /\ call.outcome = "ok"
    /\ call.answer.colBasisStatus = <<"kHighsBasisStatusNonbasic", "other">>
    /\ call.soln.ColumnBasis = <<"NonBasic", "UnknownBasisStatus">>
    /\ Len(call.soln.RowBasis) = highs.numRow

\* ------------------------------------------------------------------------
\* Properties of the checks the canonicalizer makes
\* ------------------------------------------------------------------------

FilterCalled == out.op = "filterNonzeros"

\* The entries of the input with row > col.
BelowDiagonal == {k \in 1 .. Len(nz) : nz[k].Row > nz[k].Col}

\* C13: on a list of non-negative indices, filterNonzeros with the
\* upper-triangular flag fails with the not-upper-triangular error and
\* returns no entries if any entry has row > col; without the flag entries
\* with row > col are accepted and kept.
C13_UpperTriangularRequired ==
    (FilterCalled /\ NonNegative(nz)) =>
        /\ (tri /\ BelowDiagonal # {}) =>
                out.err = "NotUpperTriangular" /\ out.nonzeros = <<>>
        /\ (tri /\ BelowDiagonal = {}) => out.err = "nil"
        /\ ~tri =>
                /\ out.err = "nil"
                /\ \A k \in BelowDiagonal : Key(nz[k]) \in KeysOf(out.nonzeros)

\* A list whose second entry alone lies below the diagonal has been refused.
C13_Witness ==
    /\ FilterCalled /\ tri /\ NonNegative(nz)
    /\ Len(nz) >= 2 /\ nz[1].Row <= nz[1].Col /\ nz[2].Row > nz[2].Col
    /\ out.err = "NotUpperTriangular" /\ out.nonzeros = <<>>

\* C14: filterNonzeros fails with the invalid-index error and returns no
\* entries if any entry, wherever it is in the list, has row < 0 or
\* col < 0; the check precedes the upper-triangular one, so a list with
\* both kinds of entry reports the invalid index.
C14_InvalidIndexFirst ==
    (FilterCalled /\ ~NonNegative(nz)) =>
        out.err = "InvalidIndex" /\ out.nonzeros = <<>>

\* A list that opens with an entry below the diagonal and holds a negative
\* index later has been refused for the index, with the flag set.
C14_Witness ==
    /\ FilterCalled /\ tri
    /\ Len(nz) >= 2 /\ nz[1].Row > nz[1].Col /\ nz[1].Col >= 0
    /\ nz[Len(nz)].Col < 0
    /\ out.err = "InvalidIndex" /\ out.nonzeros = <<>>

\* C15: filterNonzeros is idempotent: applied to its own successful result,
\* with either setting of the flag, it succeeds and returns that result
\* entry for entry.
C15_Idempotent ==
    out.op = "filterNonzeros twice" =>
        out.err = "nil" /\ out.nonzeros = out.first

\* A list with a duplicated key and its keys out of order has been
\* canonicalized twice.
C15_Witness ==
    /\ out.op = "filterNonzeros twice"
    /\ Len(nz) = 3 /\ Len(out.first) = 2
    /\ KeyBefore(Key(nz[3]), Key(nz[1]))
    /\ out.nonzeros = out.first

\* The coordinate list the arrays stand for when start[i] is read as the
\* beginning of row i - 1 (rows count from 0): the entries of that row are
\* the positions from start[i] up to start[i + 1], or up to the end of
\* value for the last row.
RECURSIVE Decode(_, _, _, _)
Decode(start, index, value, rows) ==
    IF rows = 0 THEN <<>>
    ELSE LET from == start[rows] + 1
             to   == IF rows = Len(start) THEN Len(value) ELSE start[rows + 1]
         IN Decode(start, index, value, rows - 1)
            \o [k \in 1 .. (to - from + 1) |->
                    [Row |-> rows - 1, Col |-> index[from + k - 1],
                     Val |-> value[from + k - 1]]]

\* No row up to the last one that holds an entry is without entries.
NoEmptyRow(list) ==
    \A r \in 0 .. MaxIdx :
        (\E q \in RowsOf(list) : r <= q) => r \in RowsOf(list)

Solvable(m) ==
    /\ replaceNilSlices(m).ok
    /\ m.ColCosts.isNil \/ Len(m.ColCosts.elems) = InferDims(m).nc
    /\ m.CoeffMatrix # <<>> /\ NonNegative(m.CoeffMatrix)

\* C17: numCols also covers the variable types of a MIPModel and the
\* columns the Hessian of a QPModel refers to: such a model, when HiGHS
\* raises no error, is solved, and the solution has a column for every
\* variable type and every Hessian index.
C17_ColsCoverTypesAndHessian ==
    /\ (call.op = "MIPModel.Solve" /\ Solvable(model)
            /\ call.outcome # "error") =>
        /\ call.outcome = "ok"
        /\ Len(call.soln.ColumnPrimal) >= Len(model.VarTypes.elems)
    /\ (call.op = "QPModel.Solve" /\ Solvable(model)
            /\ model.HessianMatrix # <<>> /\ NonNegative(model.HessianMatrix)
            /\ ~HasLowerTriangular(model.HessianMatrix)
            /\ call.outcome # "error") =>
        /\ call.outcome = "ok"
        /\ \A k \in 1 .. Len(model.HessianMatrix) :
                model.HessianMatrix[k].Col < Len(call.soln.ColumnPrimal)

\* ------------------------------------------------------------------------
\* Properties of the defaulted snapshot
\* ------------------------------------------------------------------------

\* The vector the snapshot must hold for a field of the caller's model:
\* the caller's own, or n copies of the default when the caller left it nil.
SnapshotOf(field, n, default) ==
    IF field.isNil THEN Slice(Filled(n, default)) ELSE field

\* C18: in the snapshot replaceNilSlices returns, every vector the caller
\* left nil has the inferred length and its default (costs 0, lower bounds
\* minus infinity, upper bounds plus infinity; columns numCols, rows
\* numRows), and every vector the caller supplied is the caller's.
C18_SnapshotDefaults ==
    (Inferred /\ call.ok) =>
        /\ call.cm.ColCosts = SnapshotOf(model.ColCosts, call.nc, 0)
        /\ call.cm.ColLower = SnapshotOf(model.ColLower, call.nc, MInf)
        /\ call.cm.ColUpper = SnapshotOf(model.ColUpper, call.nc, PInf)
        /\ call.cm.RowLower = SnapshotOf(model.RowLower, call.nr, MInf)
        /\ call.cm.RowUpper = SnapshotOf(model.RowUpper, call.nr, PInf)
        /\ call.cm.CoeffMatrix = model.CoeffMatrix
        /\ call.cm.Offset = model.Offset

\* A model with two columns and one row, its column lower bounds supplied
\* and every other vector nil, has been defaulted.
C18_Witness ==
    /\ Inferred /\ call.ok /\ call.nc = 2 /\ call.nr = 1
    /\ model.ColLower = Slice(<<0, 0>>)
    /\ model.ColCosts.isNil /\ model.ColUpper.isNil
    /\ model.RowLower.isNil /\ model.RowUpper.isNil
    /\ call.cm.ColLower = Slice(<<0, 0>>)
    /\ call.cm.ColCosts = Slice(<<0, 0>>)
    /\ call.cm.ColUpper = Slice(<<PInf, PInf>>)
    /\ call.cm.RowLower = Slice(<<MInf>>)

\* ------------------------------------------------------------------------
\* Properties of the caller's model
\* ------------------------------------------------------------------------

\* The operations that take a model and work on a snapshot of it.
SnapshotOps ==
    {"LPModel.Solve", "MIPModel.Solve", "QPModel.Solve", "LPModel.ToRawModel"}

Repeated(n, v) == [i \in 1 .. n |-> v]

\* C20: prepareBounds leaves two absent sides absent; replaces an absent
\* lower side by minus infinity at the length of the upper side and an
\* absent upper side by plus infinity at the length of the lower side;
\* returns a supplied side as it was; and on success returns two sides of
\* equal length.
C20_BoundsPrepared ==
    call.op = "prepareBounds" =>
        LET lb == call.lb
            ub == call.ub
            r  == call.out
        IN /\ (lb.isNil /\ ub.isNil) =>
                r.err = NilError /\ r.lb.isNil /\ r.ub.isNil
           /\ (lb.isNil /\ ~ub.isNil) =>
                /\ r.err = NilError
                /\ ~r.lb.isNil /\ r.lb.elems = Repeated(Len(ub.elems), MInf)
                /\ r.ub = ub
           /\ (~lb.isNil /\ ub.isNil) =>
                /\ r.err = NilError
                /\ ~r.ub.isNil /\ r.ub.elems = Repeated(Len(lb.elems), PInf)
                /\ r.lb = lb
           /\ r.err = NilError =>
                /\ Len(r.lb.elems) = Len(r.ub.elems)
                /\ ~lb.isNil => r.lb = lb
                /\ ~ub.isNil => r.ub = ub

\* prepareBounds was given two upper bounds and no lower bounds.
C20_Witness ==
    /\ call.op = "prepareBounds"
    /\ call.lb.isNil /\ call.ub = Slice(<<4, 5>>)
    /\ call.out.err = NilError
    /\ call.out.lb = Slice(<<MInf, MInf>>) /\ call.out.ub = call.ub

\* ------------------------------------------------------------------------
\* Properties of the length check on bounds
\* ------------------------------------------------------------------------

\* Both sides of a pair of bounds are supplied and differ in length.
BothDiffer(lb, ub) ==
    ~lb.isNil /\ ~ub.isNil /\ Len(lb.elems) # Len(ub.elems)

\* C21: prepareBounds returns the length-mismatch error exactly when both
\* sides are supplied and their lengths differ, and AddColumnBounds then
\* returns that error without a call of Highs_addVars and with the columns
\* of the HiGHS model as they were.
C21_LengthMismatch ==
    /\ call.op = "prepareBounds" =>
        (call.out.err.kind = "LengthMismatch" <=> BothDiffer(call.lb, call.ub))
    /\ call.op = "RawModel.AddColumnBounds" =>
        /\ call.err.kind = "LengthMismatch" <=> BothDiffer(call.rm.lb, call.rm.ub)
        /\ BothDiffer(call.rm.lb, call.rm.ub) =>
            /\ call.outcome = "error"
            /\ call.calls = <<>>
            /\ highs = NewSession

\* AddColumnBounds was given one lower bound and two upper bounds.
C21_Witness ==
    /\ call.op = "RawModel.AddColumnBounds"
    /\ call.rm.lb = Slice(<<0>>) /\ call.rm.ub = Slice(<<4, 4>>)
    /\ call.err.kind = "LengthMismatch"
    /\ highs.numCol = 0

\* ------------------------------------------------------------------------
\* Properties of a model built row by row
\* ------------------------------------------------------------------------

\* Every call so far was AddDenseRow with a coefficient vector of length n.
DenseRowsOnly(n) ==
    /\ history # <<>>
    /\ \A i \in 1 .. Len(history) :
        history[i].op = "AddDenseRow" /\ Len(history[i].coeffs) = n

\* C22: after k calls of AddDenseRow on an empty model, each with n
\* coefficients, the row bounds have length k and hold the bounds of the
\* calls in order, and the snapshot replaceNilSlices returns has n column
\* lower bounds of minus infinity and n column upper bounds of plus infinity.
C22_RowsThenDefaultColumns ==
    \A n \in 1 .. 2 : DenseRowsOnly(n) =>
        /\ model.RowLower = Slice([i \in 1 .. Len(history) |-> history[i].lb])
        /\ model.RowUpper = Slice([i \in 1 .. Len(history) |-> history[i].ub])
        /\ call.op = "replaceNilSlices" =>
            /\ call.ok
            /\ call.cm.ColLower = Slice([i \in 1 .. n |-> MInf])
            /\ call.cm.ColUpper = Slice([i \in 1 .. n |-> PInf])

\* ------------------------------------------------------------------------
\* Properties of the integrality vector
\* ------------------------------------------------------------------------

\* MIPModel.Solve has called Highs_mipCall.
MipCalled == call.op = "MIPModel.Solve" /\ call.calls = <<"Highs_mipCall">>

\* C23: the integrality vector handed to Highs_mipCall has numCols
\* elements; the element of every supplied variable type is the HiGHS code
\* of that type, and every element after them is continuous.
C23_Integrality ==
    MipCalled =>
        LET vts == model.VarTypes.elems
            ig  == call.args.integrality
        IN /\ Len(ig) = call.args.numCol
           /\ call.args.numCol = InferDims(model).nc
           /\ \A i \in 1 .. Len(ig) :
                /\ i <= Len(vts) =>
                    /\ vts[i] = "ContinuousType" => ig[i] = "kHighsVarTypeContinuous"
                    /\ vts[i] = "IntegerType" => ig[i] = "kHighsVarTypeInteger"
                    /\ vts[i] = "SemiContinuousType" =>
                            ig[i] = "kHighsVarTypeSemiContinuous"
                    /\ vts[i] = "SemiIntegerType" => ig[i] = "kHighsVarTypeSemiInteger"
                    /\ vts[i] = "ImplicitIntegerType" =>
                            ig[i] = "kHighsVarTypeImplicitInteger"
                /\ i > Len(vts) => ig[i] = "kHighsVarTypeContinuous"

\* A model of two columns with one variable type, semi-integer, has been
\* handed to Highs_mipCall.
C23_Witness ==
    /\ MipCalled
    /\ model.VarTypes = Slice(<<"SemiIntegerType">>)
    /\ call.args.integrality =
            <<"kHighsVarTypeSemiInteger", "kHighsVarTypeContinuous">>

\* ------------------------------------------------------------------------
\* Properties of the session ToRawModel creates
\* ------------------------------------------------------------------------

\* ToRawModel has returned normally, or with the error of Highs_passLp.
PassedOrFailedToPass ==
    /\ call.op = "LPModel.ToRawModel"
    /\ \/ call.outcome = "ok"
       \/ call.outcome = "error" /\ call.err.CName = "Highs_passLp"

\* C24: when ToRawModel returns, normally or with the error of the pass
\* call, the output flag of the session is what it was before ToRawModel
\* turned it off: on, as in every new session.
C24_OutputFlagRestored ==
    PassedOrFailedToPass => highs.outputFlag = NewSession.outputFlag

\* C25: a session a method has created is destroyed by the time the method
\* returns an error; in particular no session of ToRawModel is alive when
\* ToRawModel has returned an error, and no session is destroyed twice.
C25_SessionReleased ==
    /\ (call.op = "LPModel.ToRawModel" /\ call.outcome = "error") =>
            highs.sessions = 0
    /\ heap.destroyed <= 1

\* ------------------------------------------------------------------------
\* Properties of the queries on a RawSolution
\* ------------------------------------------------------------------------

\* C28: a query on a RawSolution is never made on a destroyed session, the
\* RawModel being reachable or not.
C28_QueryOnLiveSession ==
    call.op = "RawSolution.GetIntInfo" => call.session = "live"

\* ------------------------------------------------------------------------
\* Properties of the conversion of model statuses
\* ------------------------------------------------------------------------

\* The fifteen codes convertHighsModelStatus knows, each with the
\* ModelStatus of the same name.
Recognized ==
    {<<"kHighsModelStatusNotset", "NotSet">>,
     <<"kHighsModelStatusLoadError", "LoadError">>,
     <<"kHighsModelStatusModelError", "ModelError">>,
     <<"kHighsModelStatusPresolveError", "PresolveError">>,
     <<"kHighsModelStatusSolveError", "SolveError">>,
     <<"kHighsModelStatusPostsolveError", "PostsolveError">>,
     <<"kHighsModelStatusModelEmpty", "ModelEmpty">>,
     <<"kHighsModelStatusOptimal", "Optimal">>,
     <<"kHighsModelStatusInfeasible", "Infeasible">>,
     <<"kHighsModelStatusUnboundedOrInfeasible", "UnboundedOrInfeasible">>,
     <<"kHighsModelStatusUnbounded", "Unbounded">>,
     <<"kHighsModelStatusObjectiveBound", "ObjectiveBound">>,
     <<"kHighsModelStatusObjectiveTarget", "ObjectiveTarget">>,
     <<"kHighsModelStatusTimeLimit", "TimeLimit">>,
     <<"kHighsModelStatusIterationLimit", "IterationLimit">>}

\* C26: convertHighsModelStatus gives each of the fifteen codes it knows
\* the status of the same name, gives two different such codes two
\* different statuses, and gives every other code UnknownModelStatus.
C26_ModelStatusTotal ==
    call.op = "convertHighsModelStatus" =>
        /\ \A i \in 1 .. 2 :
            /\ \A p \in Recognized : call.hms[i] = p[1] => call.status[i] = p[2]
            /\ (\A p \in Recognized : call.hms[i] # p[1]) =>
                    call.status[i] = "UnknownModelStatus"
        /\ (/\ call.hms[1] # call.hms[2]
            /\ \E p \in Recognized : call.hms[1] = p[1]
            /\ \E p \in Recognized : call.hms[2] = p[1]) =>
                call.status[1] # call.status[2]

\* The iteration limit and a code of a later HiGHS have been converted.
C26_Witness ==
    /\ call.op = "convertHighsModelStatus"
    /\ call.hms = <<"kHighsModelStatusIterationLimit",
                    "kHighsModelStatusSolutionLimit">>
    /\ call.status = <<"IterationLimit", "UnknownModelStatus">>

\* ------------------------------------------------------------------------
\* Properties of the start array Solve hands to HiGHS
\* ------------------------------------------------------------------------

\* LPModel.Solve has called Highs_lpCall.
LpCalled == call.op = "LPModel.Solve" /\ call.calls = <<"Highs_lpCall">>

\* The number of stored entries in rows before row r.
EntriesBefore(r) ==
    Cardinality({k \in KeysOf(model.CoeffMatrix) : k[1] < r})

\* C27: the start array handed to Highs_lpCall has numRow elements exactly
\* when every row below numRow has an entry; when some row has none, start
\* is shorter than numRow, and every row with entries that comes after a row
\* without has its element of start at a position below its row number.
C27_StartSkipsEmptyRows ==
    LpCalled =>
        LET start == call.args.aStart
            nr    == call.args.numRow
            rows  == RowsOf(model.CoeffMatrix)
            full  == \A r \in 0 .. nr - 1 : r \in rows
        IN /\ Len(start) = nr <=> full
           /\ ~full =>
                /\ Len(start) < nr
                /\ \A r \in rows :
                    (\E g \in 0 .. r - 1 : g \notin rows) =>
                        \E p \in 0 .. r - 1 :
                            /\ p < Len(start)
                            /\ start[p + 1] = EntriesBefore(r)
                            /\ p = Cardinality({q \in rows : q < r})

\* A matrix with entries in rows 0 and 2 only has been handed over, and a
\* matrix followed by a dense row of zero coefficients.
C27_Witness ==
    /\ LpCalled
    /\ \/ /\ RowsOf(model.CoeffMatrix) = {0, 2}
          /\ call.args.numRow = 3 /\ call.args.aStart = <<0, 1>>
       \/ /\ history # <<>> /\ history[1].coeffs = <<0, 0>>
          /\ RowsOf(model.CoeffMatrix) = {0}
          /\ call.args.numRow = 2 /\ call.args.aStart = <<0>>

\* ------------------------------------------------------------------------
\* Properties of models without columns or without rows
\* ------------------------------------------------------------------------

\* C29: Solve and ToRawModel on a model with no column or no row return a
\* solution or an error; they do not panic on the first element of an
\* empty vector.
C29_EmptyModelNoCrash ==
    (/\ call.op \in SnapshotOps
     /\ InferDims(model).nc = 0 \/ InferDims(model).nr = 0) =>
        call.outcome # "panic"

\* ------------------------------------------------------------------------
\* Properties of AddDenseRow after assignments
\* ------------------------------------------------------------------------

\* The step is a call of AddDenseRow.
DenseRowAdded ==
    /\ Len(history') = Len(history) + 1
    /\ history'[Len(history')].op = "AddDenseRow"

\* C30: whatever assignments and AddDenseRow calls came before, a call of
\* AddDenseRow stores its coefficients under a row no earlier entry uses
\* and leaves as many row lower bounds as row upper bounds.
C30_DenseRowIsNew ==
    [][DenseRowAdded =>
        /\ Len(model'.RowLower.elems) = Len(model'.RowUpper.elems)
        /\ \A k \in Len(model.CoeffMatrix) + 1 .. Len(model'.CoeffMatrix) :
                model'.CoeffMatrix[k].Row \notin RowsOf(model.CoeffMatrix)]_vars

=============================================================================
